---- MODULE Spec2Model ----
(***************************************************************************)
(* Recording proxy of webmock: the per-host client pool, the request      *)
(* recorder, the accept loop with its connection tasks (plain HTTP and    *)
(* CONNECT / MITM tunnels) and HttpProxy::stop (Spec).                     *)
(* Replay server: request matching, response building and the CONNECT     *)
(* tunnel of the mock proxy (SpecServe).                                   *)
(* Snapshot store: MessagePack encoding with optional gzip, buffered and  *)
(* streaming save and load (SpecStore).                                    *)
(* Snapshot directory: delete, existence test and newest-first listing    *)
(* (SpecDir).  Capture: the network-idle wait (SpecIdle, SpecIdleLive),   *)
(* navigation with its retries (SpecNav) and the capture orchestrator     *)
(* with retry, cleanup and stop (SpecCapture).                             *)
(* On their own: the resource manager's task registry (SpecTasks), the    *)
(* streaming writer (SpecWriter), the request recorder (SpecRecorder) and *)
(* the serve command's port resolution (SpecPort).                         *)
(*                                                                         *)
(* Strings built with format!() are modelled structurally: a URL is the   *)
(* record of its scheme, host, port and path-and-query texts (an empty    *)
(* text is an absent part), a body is the sequence of the pieces that     *)
(* were concatenated.  Header maps are modelled by their sets of names;   *)
(* the content type and the timestamp of a record are left out.           *)
(***************************************************************************)
EXTENDS Integers, Sequences, FiniteSets, TLC

\* Bounds of the model.
MaxConns == 2          \* connections the accept loop may accept
MaxReqs == 2           \* requests received over all connections

Conns == 1..MaxConns

VARIABLES
    clients,      \* HttpClientPool.clients: host -> client (identity of the Arc)
    built,        \* number of clients constructed so far (allocates identities)
    records,      \* RequestRecorder.records
    recLock,      \* holders of the recorder's mutex
    acceptLoop,   \* the task spawned by HttpProxy::start: "running" | "stopped"
    shutdown,     \* the oneshot shutdown signal has been sent
    stopPc,       \* position of HttpProxy::stop
    pc,           \* position of each connection task
    mode,         \* "plain" connection or decrypted "tunnel"
    tunnel,       \* host and port parsed from the CONNECT that opened the tunnel
    cur,          \* the request handler's locals
    nrec,         \* appends completed by each connection task
    nreq,         \* requests received so far
    snapshot,     \* MockServer.snapshot: the recorded exchanges being replayed
    spc,          \* position of the replay server's connection
    host_port,    \* authority of the CONNECT that opened the replay tunnel
    handled,      \* the request the replay server handled last, with its reply
    files,        \* the snapshots directory: name -> file written by save_snapshot
    loaded,       \* the result of the last load_snapshot
    written,      \* what the last direct call of serialize_streaming wrote
    foreign,      \* entries of the snapshots directory that save_snapshot did not write
    answer,       \* the result of the last snapshot_exists, delete_snapshot or list_snapshots
    gone,         \* names deleted and not saved again since (history)
    idle,         \* wait_for_network_idle: its position, its locals and what it saw
    nav,          \* navigate_and_wait: its position, its locals and what each attempt met
    orch,         \* run_capture_with_recovery and CaptureSession::stop: position and locals
    sess,         \* CaptureSession: its handles, accept loops that run, the recorder
    rm,           \* ResourceManager: the task registry, the spawned tasks, a waiting caller
    sw,           \* StreamingWriter: its buffer, its temporary file and what was written
    rec,          \* a RequestRecorder on its own: its log and the copies it returned
    port          \* the serve command's port resolution: its input, its probes, its result

proxyVars == <<clients, built, records, recLock, acceptLoop, shutdown, stopPc,
               pc, mode, tunnel, cur, nrec, nreq>>
serveVars == <<snapshot, spc, host_port, handled>>
storeVars == <<files, loaded, written, foreign, answer, gone>>
idleVars == <<idle>>
navVars == <<nav>>
captureVars == <<orch, sess>>
taskVars == <<rm>>
writerVars == <<sw>>
recorderVars == <<rec>>
portVars == <<port>>
vars == <<proxyVars, serveVars, storeVars, idleVars, navVars, captureVars,
          taskVars, writerVars, recorderVars, portVars>>

\* What the recording proxy, the replay server and the snapshot store leave alone.
notProxy == <<serveVars, storeVars, idleVars, navVars, captureVars,
             taskVars, writerVars, recorderVars, portVars>>
notServe == <<proxyVars, storeVars, idleVars, navVars, captureVars,
             taskVars, writerVars, recorderVars, portVars>>
notStore == <<proxyVars, serveVars, idleVars, navVars, captureVars,
             taskVars, writerVars, recorderVars, portVars>>
notIdle == <<proxyVars, serveVars, storeVars, navVars, captureVars,
             taskVars, writerVars, recorderVars, portVars>>
notNav == <<proxyVars, serveVars, storeVars, idleVars, captureVars,
             taskVars, writerVars, recorderVars, portVars>>
notCapture == <<proxyVars, serveVars, idleVars, navVars, loaded, written, foreign, answer, gone,
               taskVars, writerVars, recorderVars, portVars>>
notTasks == <<proxyVars, serveVars, storeVars, idleVars, navVars, captureVars,
             writerVars, recorderVars, portVars>>
notWriter == <<proxyVars, serveVars, storeVars, idleVars, navVars, captureVars,
              taskVars, recorderVars, portVars>>
notRecorder == <<proxyVars, serveVars, storeVars, idleVars, navVars, captureVars,
                taskVars, writerVars, portVars>>
notPort == <<proxyVars, serveVars, storeVars, idleVars, navVars, captureVars,
            taskVars, writerVars, recorderVars>>

poolVars == <<clients, built>>
stopVars == <<acceptLoop, shutdown, stopPc>>

----------------------------------------------------------------------------
\* Values

Url(s, h, p, q) == [scheme |-> s, host |-> h, port |-> p, path |-> q]
NoUrl == Url("", "", "", "")
NoTunnel == [host |-> "", port |-> ""]
EmptyMap == [h \in {} |-> 0]

\* utils.rs: is_hop_by_hop_header
HopByHop == {"connection", "keep-alive", "proxy-authenticate", "proxy-authorization",
             "te", "trailers", "transfer-encoding", "upgrade"}
is_hop_by_hop_header(name) == name \in HopByHop

\* Hosts that url::Url::parse rejects.
BadHosts == {"bad host", "[::zz]"}

\* Requests a client may send on a plain proxy connection.
PlainRequests ==
    { [method |-> "GET", uri |-> Url("http", "b.org", "", "/a"),
       host |-> [host |-> "b.org", port |-> ""], hdrs |-> {"accept", "connection"},
       body |-> <<>>, bodyOk |-> TRUE],
      [method |-> "GET", uri |-> Url("", "", "", "/a"),
       host |-> [host |-> "bad host", port |-> ""], hdrs |-> {},
       body |-> <<>>, bodyOk |-> TRUE],
      [method |-> "POST", uri |-> Url("http", "b.org", "", "/a"),
       host |-> [host |-> "b.org", port |-> ""], hdrs |-> {},
       body |-> <<"x">>, bodyOk |-> FALSE] }

\* CONNECT requests (authority form).
ConnectRequests ==
    { [method |-> "CONNECT", uri |-> Url("", "a.com", "8443", ""),
       host |-> [host |-> "a.com", port |-> "8443"], hdrs |-> {},
       body |-> <<>>, bodyOk |-> TRUE] }

\* Requests a client may send inside a decrypted tunnel (origin form).
InnerRequests ==
    { [method |-> "GET", uri |-> Url("", "", "", "/b?q=1"),
       host |-> [host |-> "a.com", port |-> "8443"], hdrs |-> {"accept"},
       body |-> <<>>, bodyOk |-> TRUE] }

\* What the origin may answer.
OriginResponses ==
    { [status |-> 200, headers |-> {"content-type", "transfer-encoding"},
       body |-> <<"hello">>] }

\* Errors of forward_request_with_pool after the URL has been parsed.
ForwardErrors == {"Request failed", "Failed to read response body"}

NoResponse == [status |-> 0, headers |-> {}, body |-> <<>>]

Idle == [kind |-> "none", method |-> "", url |-> NoUrl, hdrs |-> {}, body |-> <<>>,
         client |-> 0, resp |-> NoResponse, reply |-> NoResponse, failed |-> FALSE,
         err |-> "", idx |-> 0, sends |-> 0, out |-> {}]

----------------------------------------------------------------------------
\* Pure functions of the handlers

\* error/mod.rs: Display of WebMockError::Proxy
ProxyErrorDisplay(msg) == <<"Proxy server error: ", msg>>

\* records/response.rs: ResponseRecord::new (status, headers and body are stored as given)
ResponseRecord(status, headers, body) ==
    [status |-> status, headers |-> headers, body |-> body]

\* records/request.rs: RequestRecord::new.  conn, n and kind are not fields of the
\* program's record: they name the task that appended it, the number of the append
\* in that task, and the handler ("mitm": handle_connect_mitm, "nested":
\* handle_connect_request, "forward": handle_request on a plain connection,
\* "inner": handle_request inside a tunnel).
RequestRecord(c, n, kind, method, url, headers, body, response) ==
    [conn |-> c, n |-> n, kind |-> kind, method |-> method, url |-> url,
     headers |-> headers, body |-> body, response |-> response]

\* host.contains(needle) for the needles handle_request looks for
Contains(h, needle) ==
    CASE needle = ":443"  -> h.port \in {"443"}
      [] needle = ":80"   -> h.port \in {"80", "8080"}
      [] needle = ":8080" -> h.port \in {"8080"}
      [] OTHER -> FALSE

\* http_handlers.rs: the target URL of a non-CONNECT request
TargetUrl(req) ==
    IF req.uri.scheme # ""
    THEN req.uri
    ELSE LET host == IF req.host.host = "" THEN [host |-> "localhost", port |-> ""]
                     ELSE req.host
             is_https == Contains(host, ":443")
                            \/ (~Contains(host, ":80") /\ ~Contains(host, ":8080"))
             protocol == IF is_https THEN "https" ELSE "http"
         IN Url(protocol, host.host, host.port,
                IF req.uri.path = "" THEN "/" ELSE req.uri.path)

\* mitm_handlers.rs / https_handlers.rs: host and port of a CONNECT authority
ConnectTarget(uri) ==
    LET auth == IF uri.host = "" THEN [host |-> "unknown", port |-> "443"]
                ELSE [host |-> uri.host, port |-> uri.port]
    IN [host |-> auth.host, port |-> IF auth.port = "" THEN "443" ELSE auth.port]

\* Mutant of ConnectUrl: the entry is recorded under the bare authority.
ConnectUrlNoScheme(t) == Url("", t.host, t.port, "")

\* format!("https://{}:{}", host, port)
ConnectUrl(t) == Url("https", t.host, t.port, "")

\* mitm_handlers.rs: the URL an inner request is rewritten to
StartsWithHttp(path) == path \in {"http", "https"}
InnerUrl(host, uri) ==
    IF uri.path # ""
    THEN IF StartsWithHttp(uri.path) THEN uri ELSE Url("https", host, "", uri.path)
    ELSE Url("https", host, "", "")

\* utils.rs: url::Url::parse and host_str
UrlParses(u) == u.host \notin BadHosts /\ u.host # ""

\* str::to_lowercase on header names
to_lowercase(name) ==
    CASE name = "Connection" -> "connection"
      [] name = "Keep-Alive" -> "keep-alive"
      [] name = "TE" -> "te"
      [] name = "Upgrade" -> "upgrade"
      [] name = "Accept" -> "accept"
      [] name = "Proxy-Agent" -> "proxy-agent"
      [] name = "Content-Length" -> "content-length"
      [] OTHER -> name

\* Mutant of OutgoingHeaders: every header of the request is forwarded.
OutgoingHeadersUnfiltered(headers) == headers

\* utils.rs: request headers sent to the origin
OutgoingHeaders(headers) == {h \in headers : ~is_hop_by_hop_header(to_lowercase(h))}

\* utils.rs: response headers taken from the origin's response
ResponseHeaders(headers) == headers

\* http_handlers.rs: the record and reply of a failed forward
ErrorStatus == 502
ErrorBody(e) == <<"Proxy Error: ">> \o e
\* Mutant of ErrorResponseRecord: the failure is recorded as a 500 without a body.
ErrorResponseRecord500(e) == ResponseRecord(500, {}, <<>>)
ErrorResponseRecord(e) == ResponseRecord(ErrorStatus, {}, ErrorBody(e))
ErrorReply(e) == ResponseRecord(ErrorStatus, {}, ErrorBody(e))

\* Mutant of ClientReply: the reply is built without the collected body.
ClientReplyNoBody(status, headers, body) == ResponseRecord(status, headers, <<>>)

\* http_handlers.rs: the reply of a successful forward
ClientReply(status, headers, body) == ResponseRecord(status, headers, body)

\* Mutant of Push: the record is inserted at the front of the log.
PushFront(log, idx, r) == <<r>> \o log

\* recorder.rs: Vec::push at the length read under the lock
Push(log, idx, r) ==
    IF idx >= Len(log) THEN SubSeq(log, 1, idx) \o <<r>>
    ELSE [log EXCEPT ![idx + 1] = r]

\* Mutant of LockFree: record_request does not wait for the mutex.
LockAlwaysFree(holders) == TRUE

\* recorder.rs: the mutex is free
LockFree(holders) == holders = {}

\* client_pool.rs: the map after insert
Insert(map, host, client) == (host :> client) @@ map

client_count == Cardinality(DOMAIN clients)

----------------------------------------------------------------------------
\* The request the replay server handled last: nothing yet.
NoHandled == [where |-> "none", method |-> "", uri |-> NoUrl, host |-> "",
              full_url |-> NoUrl, matched |-> 0, spawned |-> FALSE,
              response |-> [status |-> 0, headers |-> EmptyMap, body |-> <<>>],
              wire |-> [status |-> 0, headers |-> EmptyMap, body |-> <<>>]]

\* No replay server runs beside the recording proxy.
ServeOff ==
    /\ snapshot = <<>>
    /\ spc = "off"
    /\ host_port = NoTunnel
    /\ handled = NoHandled

\* A snapshot, and an encoded snapshot, that stand for none.
NoSnapshot == [name |-> "", url |-> [data |-> "", len |-> 0], created_at |-> "",
               requests |-> <<>>]
NoData == [kind |-> "none", metadata |-> <<>>, requests |-> <<>>, len |-> 0]
NoLoad == [name |-> "", via |-> "none", ok |-> FALSE, error |-> "", value |-> NoSnapshot]
NoWrite == [of |-> NoSnapshot, path |-> "none", data |-> NoData]
NoAnswer == [op |-> "none", name |-> "", ok |-> FALSE, error |-> "", value |-> <<>>]

\* storage/mod.rs: Storage::new over an empty snapshots directory
StoreInit ==
    /\ files = EmptyMap
    /\ loaded = NoLoad
    /\ written = NoWrite
    /\ foreign = {}
    /\ answer = NoAnswer
    /\ gone = {}

\* network.rs: the locals of wait_for_network_idle at its first line; seen holds
\* the lengths the latest polls observed, declared that idle was detected
IdleLocals(at, proxy) ==
    [pc |-> at, proxy |-> proxy, records_len |-> 0, last_request_count |-> 0,
     stable_count |-> 0, elapsed |-> 0, seen |-> <<>>, declared |-> FALSE,
     result |-> ""]

\* wait_for_network_idle is not running.
IdleOff == idle = IdleLocals("off", FALSE)

\* session_workflow.rs: the locals of navigate_and_wait at its first line; tried
\* holds what each attempt met ("ok" or the kind of its error)
NavLocals(at, url, browser) ==
    [pc |-> at, url |-> url, browser |-> browser, attempts |-> 0, tried |-> <<>>,
     sleeps |-> 0, result |-> ""]

\* navigate_and_wait is not running.
NavOff == nav = NavLocals("off", NoUrl, FALSE)

\* session/types.rs: CaptureSession::new; proxy is 0 (None) or the number of the
\* attempt that started it, loops the attempts whose accept loop runs, log the
\* recorder of the proxy held.  from tells for each entry of log the attempt
\* whose connection task appended it, started the attempts whose proxy started
\* (their connection tasks are detached and outlive the proxy), late the attempts
\* whose tasks appended to their recorder after the session gave the proxy up
NewSession ==
    [browser |-> FALSE, proxy |-> 0, loops |-> {}, log |-> <<>>,
     from |-> <<>>, started |-> {}, late |-> {}]

\* execution.rs: the locals of run_capture_with_recovery and of stop
OrchLocals(at, entry, url, name) ==
    [pc |-> at, entry |-> entry, url |-> url, name |-> name, retry_count |-> 0,
     attempts |-> 0, errors |-> <<>>, slept |-> 0, requests |-> <<>>,
     at_drain |-> <<>>, result |-> ""]

\* No capture runs.
CaptureOff ==
    /\ orch = OrchLocals("off", "none", [parsed |-> NoUrl, text |-> [data |-> "", len |-> 0]], "")
    /\ sess = NewSession

\* resource_manager.rs: the locals of wait_for_all_tasks; settled tells whether
\* every task had completed when the registry was last counted
WaitLocals(at, timeout) ==
    [pc |-> at, timeout |-> timeout, elapsed |-> 0, settled |-> FALSE, result |-> ""]

\* resource_manager.rs: ResourceManager::new.  tasks is the registry (name and
\* JoinHandle), handles the tasks tokio::spawn created, in order, pending the
\* handles spawn_managed_task has created and not yet registered
NewManager ==
    [tasks |-> {}, handles |-> <<>>, pending |-> {}, wait |-> WaitLocals("off", 0)]

\* No managed task was spawned.
TasksOff == rm = NewManager

\* streaming.rs: StreamingWriter::new.  file is the content of the temporary
\* file, chunks the data of the write calls so far, in call order
NewWriter(max_memory_size) ==
    [pc |-> "open", temp_file |-> FALSE, file |-> <<>>, in_memory_buffer |-> <<>>,
     max_memory_size |-> max_memory_size, chunks |-> <<>>, result |-> <<>>]

\* No StreamingWriter is in use.
WriterOff == sw = NewWriter(0)

\* recorder.rs: RequestRecorder::new.  clears counts the clear_records calls,
\* reads holds every copy get_records returned with the count of clears before it
NewRecorder == [records |-> <<>>, clears |-> 0, reads |-> <<>>, calls |-> 0]

\* No call was made on the recorder.
RecorderOff == rec = NewRecorder

\* commands/serve/mod.rs: the locals of check_and_resolve_port and of
\* find_available_port.  busy tells how many ports from the requested one on are
\* in use, checks is whether the build checks integer overflow (it then panics)
\* or wraps; probed holds the ports that were tried, overflowed that an addition
\* left the range of u16
PortLocals(at, requested_port, busy, checks) ==
    [pc |-> at, requested_port |-> requested_port, busy |-> busy, checks |-> checks,
     start_port |-> 0, attempt |-> 0, probed |-> <<>>, overflowed |-> FALSE,
     result |-> "", value |-> 0]

\* The serve command is not running.
PortOff == port = PortLocals("off", 0, 0, FALSE)

\* The parts of the program the capture and replay paths do not touch.
LaterOff == TasksOff /\ WriterOff /\ RecorderOff /\ PortOff

\* core.rs: the proxy after HttpProxy::start
ProxyInit ==
    /\ clients = EmptyMap
    /\ built = 0
    /\ records = <<>>
    /\ recLock = {}
    /\ acceptLoop = "running"
    /\ shutdown = FALSE
    /\ stopPc = "idle"
    /\ pc = [c \in Conns |-> "init"]
    /\ mode = [c \in Conns |-> "plain"]
    /\ tunnel = [c \in Conns |-> NoTunnel]
    /\ cur = [c \in Conns |-> Idle]
    /\ nrec = [c \in Conns |-> 0]
    /\ nreq = 0

Init == ProxyInit /\ ServeOff /\ StoreInit /\ IdleOff /\ NavOff /\ CaptureOff /\ LaterOff

----------------------------------------------------------------------------
\* core.rs: the accept loop

\* listener.accept() returns a stream: a connection task is spawned (detached)
Accept(c) ==
    /\ acceptLoop = "running"
    /\ pc[c] = "init"
    /\ \A d \in Conns : d < c => pc[d] # "init"
    /\ pc' = [pc EXCEPT ![c] = "reading"]
    /\ UNCHANGED <<notProxy, poolVars, stopVars, records, recLock, mode, tunnel, cur, nrec, nreq>>

\* listener.accept() returns an error: break
AcceptError ==
    /\ acceptLoop = "running"
    /\ acceptLoop' = "stopped"
    /\ UNCHANGED <<notProxy, poolVars, shutdown, stopPc, records, recLock, pc, mode, tunnel, cur,
                   nrec, nreq>>

\* the select! arm on shutdown_rx: break
ShutdownRecv ==
    /\ acceptLoop = "running"
    /\ shutdown
    /\ acceptLoop' = "stopped"
    /\ UNCHANGED <<notProxy, poolVars, shutdown, stopPc, records, recLock, pc, mode, tunnel, cur,
                   nrec, nreq>>

----------------------------------------------------------------------------
\* mitm_handlers.rs: handle_connect_mitm up to the append of the synthetic entry
ReceiveConnectMitm(c, req) ==
    /\ pc[c] = "reading" /\ mode[c] = "plain" /\ nreq < MaxReqs
    /\ req.method = "CONNECT"
    /\ LET t == ConnectTarget(req.uri) IN
        /\ tunnel' = [tunnel EXCEPT ![c] = t]
        /\ cur' = [cur EXCEPT ![c] =
                     [Idle EXCEPT !.kind = "mitm", !.method = "CONNECT",
                                  !.url = ConnectUrl(t),
                                  !.resp = ResponseRecord(200, {"Connection"}, <<>>),
                                  !.reply = ResponseRecord(200, {}, <<>>)]]
    /\ pc' = [pc EXCEPT ![c] = "rec_lock"]
    /\ nreq' = nreq + 1
    /\ UNCHANGED <<notProxy, poolVars, stopVars, records, recLock, mode, nrec>>

\* The request as the service hands it to handle_request: inside a tunnel the URI
\* is rewritten first (full_url.parse() succeeds for the URLs built here).
Rewritten(c, req) ==
    IF mode[c] = "tunnel" THEN [req EXCEPT !.uri = InnerUrl(tunnel[c].host, req.uri)]
    ELSE req

\* http_handlers.rs: handle_request of a non-CONNECT request, up to the call of
\* forward_request_with_pool; a body that cannot be read is answered 400.
ReceiveRequest(c, req) ==
    /\ pc[c] = "reading" /\ nreq < MaxReqs
    /\ req.method # "CONNECT"
    /\ LET r == Rewritten(c, req)
           header_map == r.hdrs \cup (IF r.host.host = "" THEN {} ELSE {"host"})
       IN IF ~r.bodyOk
          THEN /\ cur' = [cur EXCEPT ![c] =
                            [Idle EXCEPT !.kind = "bad_request", !.method = r.method,
                                !.reply = ResponseRecord(400, {"Connection"},
                                                         <<"Failed to read request body">>)]]
               /\ pc' = [pc EXCEPT ![c] = "reply"]
          ELSE /\ cur' = [cur EXCEPT ![c] =
                            [Idle EXCEPT !.kind = IF mode[c] = "tunnel" THEN "inner" ELSE "forward",
                                         !.method = r.method,
                                         !.url = TargetUrl(r), !.hdrs = header_map,
                                         !.body = r.body]]
               /\ pc' = [pc EXCEPT ![c] = "fwd"]
    /\ nreq' = nreq + 1
    /\ UNCHANGED <<notProxy, poolVars, stopVars, records, recLock, mode, tunnel, nrec>>

\* TcpStream::connect(host_port): an address without a port is rejected
TcpConnects(authority, reachable) == authority.port # "" /\ reachable

\* https_handlers.rs: handle_connect_request, reached from handle_request when a
\* CONNECT arrives inside a tunnel, up to the append of its entry
ReceiveConnectNested(c, req, reachable) ==
    /\ pc[c] = "reading" /\ mode[c] = "tunnel" /\ nreq < MaxReqs
    /\ req.method = "CONNECT"
    /\ LET r == Rewritten(c, req)
           authority == [host |-> r.uri.host, port |-> r.uri.port]
           t == ConnectTarget(r.uri)
       IN cur' = [cur EXCEPT ![c] =
            IF TcpConnects(authority, reachable)
            THEN [Idle EXCEPT !.kind = "nested", !.method = "CONNECT", !.url = ConnectUrl(t),
                     !.resp = ResponseRecord(200, {"Connection", "Proxy-Agent"}, <<>>),
                     !.reply = ResponseRecord(200, {"Connection", "Proxy-Agent"}, <<>>)]
            ELSE [Idle EXCEPT !.kind = "nested", !.method = "CONNECT", !.url = ConnectUrl(t),
                     !.failed = TRUE,
                     !.resp = ResponseRecord(502, {},
                                  <<"Failed to connect to ", authority.host, authority.port>>),
                     !.reply = ResponseRecord(502, {"Connection"},
                                  <<"Failed to connect to ", authority.host, authority.port>>)]]
    /\ pc' = [pc EXCEPT ![c] = "rec_lock"]
    /\ nreq' = nreq + 1
    /\ UNCHANGED <<notProxy, poolVars, stopVars, records, recLock, mode, tunnel, nrec>>

----------------------------------------------------------------------------
\* client_pool.rs: what get_client returns after its insert
Returned(map, host, mine) == mine

\* utils.rs: forward_request_with_pool parses the URL, then get_client looks the
\* host up under the read lock
ForwardStart(c) ==
    /\ pc[c] = "fwd"
    /\ LET u == cur[c].url IN
       IF ~UrlParses(u)
       THEN LET e == ProxyErrorDisplay("Invalid URL") IN
            /\ cur' = [cur EXCEPT ![c].failed = TRUE, ![c].err = "Invalid URL",
                                  ![c].resp = ErrorResponseRecord(e),
                                  ![c].reply = ErrorReply(e)]
            /\ pc' = [pc EXCEPT ![c] = "rec_lock"]
       ELSE IF u.host \in DOMAIN clients
            THEN /\ cur' = [cur EXCEPT ![c].client = clients[u.host]]
                 /\ pc' = [pc EXCEPT ![c] = "send"]
            ELSE /\ cur' = cur
                 /\ pc' = [pc EXCEPT ![c] = "insert"]
    /\ UNCHANGED <<notProxy, poolVars, stopVars, records, recLock, mode, tunnel, nrec, nreq>>

\* client_pool.rs: get_client builds a client and inserts it under the write lock
GetClientInsert(c) ==
    /\ pc[c] = "insert"
    /\ built' = built + 1
    /\ clients' = Insert(clients, cur[c].url.host, built + 1)
    /\ cur' = [cur EXCEPT ![c].client = Returned(clients, cur[c].url.host, built + 1)]
    /\ pc' = [pc EXCEPT ![c] = "send"]
    /\ UNCHANGED <<notProxy, stopVars, records, recLock, mode, tunnel, nrec, nreq>>

\* utils.rs: client.request() and the body collection succeed
SendOk(c, r) ==
    /\ pc[c] = "send"
    /\ LET response_headers == ResponseHeaders(r.headers) IN
       cur' = [cur EXCEPT ![c].sends = @ + 1, ![c].client = 0,
                          ![c].out = OutgoingHeaders(cur[c].hdrs),
                          ![c].resp = ResponseRecord(r.status, response_headers, r.body),
                          ![c].reply = ClientReply(r.status, response_headers, r.body)]
    /\ pc' = [pc EXCEPT ![c] = "rec_lock"]
    /\ UNCHANGED <<notProxy, poolVars, stopVars, records, recLock, mode, tunnel, nrec, nreq>>

\* utils.rs: client.request() or the body collection fails
SendFail(c, msg) ==
    /\ pc[c] = "send"
    /\ LET e == ProxyErrorDisplay(msg) IN
       cur' = [cur EXCEPT ![c].sends = @ + 1, ![c].client = 0, ![c].failed = TRUE,
                          ![c].err = msg,
                          ![c].out = OutgoingHeaders(cur[c].hdrs),
                          ![c].resp = ErrorResponseRecord(e),
                          ![c].reply = ErrorReply(e)]
    /\ pc' = [pc EXCEPT ![c] = "rec_lock"]
    /\ UNCHANGED <<notProxy, poolVars, stopVars, records, recLock, mode, tunnel, nrec, nreq>>

----------------------------------------------------------------------------
\* recorder.rs: record_request acquires the mutex
RecordLock(c) ==
    /\ pc[c] = "rec_lock"
    /\ LockFree(recLock)
    /\ recLock' = recLock \cup {c}
    /\ cur' = [cur EXCEPT ![c].idx = Len(records)]
    /\ pc' = [pc EXCEPT ![c] = "rec_push"]
    /\ UNCHANGED <<notProxy, poolVars, stopVars, records, mode, tunnel, nrec, nreq>>

\* recorder.rs: record_request pushes the record and drops the guard
RecordPush(c) ==
    /\ pc[c] = "rec_push"
    /\ records' = Push(records, cur[c].idx,
                       RequestRecord(c, nrec[c] + 1, cur[c].kind, cur[c].method, cur[c].url,
                                     cur[c].hdrs, cur[c].body, cur[c].resp))
    /\ recLock' = recLock \ {c}
    /\ nrec' = [nrec EXCEPT ![c] = @ + 1]
    /\ cur' = [cur EXCEPT ![c].idx = 0]
    /\ pc' = [pc EXCEPT ![c] = "reply"]
    /\ UNCHANGED <<notProxy, poolVars, stopVars, mode, tunnel, nreq>>

\* The handler returns cur[c].reply to the client.  A reply that carries a
\* Connection header (close, or the upgrade of a CONNECT answered inside a tunnel)
\* ends the HTTP connection; the 200 of handle_connect_mitm is followed by the upgrade.
Reply(c) ==
    /\ pc[c] = "reply"
    /\ pc' = [pc EXCEPT ![c] =
                 IF cur[c].kind = "mitm" THEN "upgrade"
                 ELSE IF "Connection" \in cur[c].reply.headers THEN "closed"
                 ELSE "reading"]
    /\ cur' = [cur EXCEPT ![c] = Idle]
    /\ UNCHANGED <<notProxy, poolVars, stopVars, records, recLock, mode, tunnel, nrec, nreq>>

\* mitm_handlers.rs: the spawned task awaits the upgrade and the TLS handshake
Upgrade(c, ok) ==
    /\ pc[c] = "upgrade"
    /\ IF ok THEN /\ mode' = [mode EXCEPT ![c] = "tunnel"]
                  /\ pc' = [pc EXCEPT ![c] = "reading"]
       ELSE /\ mode' = mode
            /\ pc' = [pc EXCEPT ![c] = "closed"]
    /\ UNCHANGED <<notProxy, poolVars, stopVars, records, recLock, tunnel, cur, nrec, nreq>>

----------------------------------------------------------------------------
\* core.rs: HttpProxy::stop

StopSignal ==
    /\ stopPc = "idle"
    /\ shutdown' = TRUE
    /\ stopPc' = "signalled"
    /\ UNCHANGED <<notProxy, poolVars, acceptLoop, records, recLock, pc, mode, tunnel, cur,
                   nrec, nreq>>

\* handle.abort(); handle.await
StopJoin ==
    /\ stopPc = "signalled"
    /\ acceptLoop' = "stopped"
    /\ stopPc' = "joined"
    /\ UNCHANGED <<notProxy, poolVars, shutdown, records, recLock, pc, mode, tunnel, cur,
                   nrec, nreq>>

\* client_pool.rs: clear, called by stop
StopClear ==
    /\ stopPc = "joined"
    /\ clients' = EmptyMap
    /\ stopPc' = "cleared"
    /\ UNCHANGED <<notProxy, built, acceptLoop, shutdown, records, recLock, pc, mode, tunnel, cur,
                   nrec, nreq>>

StopReturn ==
    /\ stopPc = "cleared"
    /\ stopPc' = "returned"
    /\ UNCHANGED <<notProxy, poolVars, acceptLoop, shutdown, records, recLock, pc, mode, tunnel, cur,
                   nrec, nreq>>

----------------------------------------------------------------------------
ConnStep(c) ==
    \/ \E req \in ConnectRequests : ReceiveConnectMitm(c, req)
    \/ \E req \in PlainRequests \cup InnerRequests :
          /\ (mode[c] = "tunnel") = (req \in InnerRequests)
          /\ ReceiveRequest(c, req)
    \/ \E req \in ConnectRequests : \E reachable \in BOOLEAN :
          ReceiveConnectNested(c, req, reachable)
    \/ ForwardStart(c)
    \/ GetClientInsert(c)
    \/ \E r \in OriginResponses : SendOk(c, r)
    \/ \E msg \in ForwardErrors : SendFail(c, msg)
    \/ RecordLock(c)
    \/ RecordPush(c)
    \/ Reply(c)
    \/ \E ok \in BOOLEAN : Upgrade(c, ok)

StopStep == StopSignal \/ StopJoin \/ StopClear \/ StopReturn

Next ==
    \/ \E c \in Conns : Accept(c)
    \/ AcceptError
    \/ ShutdownRecv
    \/ \E c \in Conns : ConnStep(c)
    \/ StopStep

Spec == Init /\ [][Next]_vars

----------------------------------------------------------------------------
\* Entries of the log appended by task c from handlers of the given kinds
Entries(c, kinds) ==
    {i \in 1..Len(records) : records[i].conn = c /\ records[i].kind \in kinds}

Forwarding == {"forward", "inner"}

\* The handler of task c has appended its record and is about to return
Replying(c, kinds) == pc[c] = "reply" /\ cur[c].kind \in kinds

\* The entry appended by the handler that task c is in
OwnEntries(c) == {i \in 1..Len(records) : records[i].conn = c /\ records[i].n = nrec[c]}

----------------------------------------------------------------------------
\* C1: as long as clear() has not been called, all callers of get_client(h) hold
\* the same client for host h, also callers that raced on a cold cache (the loser
\* of the race returns the stored client).
C1_SameClientPerHost ==
    stopPc \notin {"cleared", "returned"} =>
        \A c1, c2 \in Conns :
            (/\ cur[c1].client # 0
             /\ cur[c2].client # 0
             /\ cur[c1].url.host = cur[c2].url.host)
            => cur[c1].client = cur[c2].client

\* C2: the log is an interleaving of the tasks' append sequences: every completed
\* append of a task is in the log exactly once, and the appends of one task are in
\* the order in which the task made them.
C2_LogIsInterleaving ==
    /\ \A c \in Conns :
          /\ Cardinality(Entries(c, {"mitm", "nested", "forward", "inner"})) = nrec[c]
          /\ {records[i].n : i \in Entries(c, {"mitm", "nested", "forward", "inner"})}
                = 1..nrec[c]
    /\ \A i, j \in 1..Len(records) :
          (i < j /\ records[i].conn = records[j].conn) => records[i].n < records[j].n

\* C2 witness: two tasks have appended, the task of the connection accepted later
\* first.
C2_Witness ==
    /\ Len(records) = 2
    /\ records[1].conn = 2 /\ records[2].conn = 1

\* C3: once stop() has returned no connection task takes a further step: nothing
\* is forwarded and nothing is recorded.
C3_NoTaskStepAfterStop ==
    [][stopPc = "returned" => (pc' = pc /\ cur' = cur /\ records' = records)]_vars

\* C4: at the moment stop() returns the accept loop has terminated and the client
\* pool holds no clients.
C4_StopLeavesPoolEmpty ==
    [][(stopPc = "cleared" /\ stopPc' = "returned")
          => (acceptLoop' = "stopped" /\ client_count' = 0)]_vars

\* The CONNECT that opened the tunnel of task c has been recorded
MitmHandled(c) ==
    tunnel[c] # NoTunnel /\ ~(cur[c].kind = "mitm" /\ pc[c] \in {"rec_lock", "rec_push"})

\* Every CONNECT whose handler has appended its record has exactly one entry, and
\* the entry has method CONNECT and an https URL.
OneEntryPerConnect ==
    \A c \in Conns :
        /\ Cardinality(Entries(c, {"mitm"})) = IF MitmHandled(c) THEN 1 ELSE 0
        /\ Cardinality(Entries(c, {"nested"})) <= 1
        /\ Replying(c, {"nested"}) => Cardinality(Entries(c, {"nested"})) = 1
        /\ \A i \in Entries(c, {"mitm", "nested"}) :
              records[i].method = "CONNECT" /\ records[i].url.scheme = "https"

\* C5 as stated: every CONNECT handled during recording has exactly one synthetic
\* entry, with method CONNECT, a URL starting with https:// and status 200.
C5_EveryConnectRecorded200 ==
    /\ OneEntryPerConnect
    /\ \A i \in 1..Len(records) :
          records[i].method = "CONNECT" => records[i].response.status = 200

\* C5 amended: every CONNECT handled during recording has exactly one entry, with
\* method CONNECT and a URL starting with https://; its status is 200 for a CONNECT
\* received on the proxy's listener (handle_connect_mitm), and 200 or 502 for a
\* CONNECT received inside a tunnel (handle_connect_request: 502 when the
\* connection to the target fails).
C5_ConnectRecorded ==
    /\ OneEntryPerConnect
    /\ \A i \in 1..Len(records) :
          /\ records[i].kind = "mitm" => records[i].response.status = 200
          /\ records[i].kind = "nested" => records[i].response.status \in {200, 502}
          /\ records[i].method = "CONNECT" => records[i].kind \in {"mitm", "nested"}

\* C5 witness: a tunnel was opened by a recorded CONNECT and a CONNECT inside it
\* was recorded with status 502.
C5_Witness ==
    \E c \in Conns :
        /\ MitmHandled(c)
        /\ \E i \in Entries(c, {"mitm"}) : records[i].response.status = 200
        /\ \E i \in Entries(c, {"nested"}) : records[i].response.status = 502

\* C6: the synthetic CONNECT entry of a tunnel is in the log before the entry of
\* any request carried by that tunnel.
C6_ConnectBeforeInner ==
    \A j \in 1..Len(records) :
        records[j].kind \in {"inner", "nested"} =>
            \E i \in 1..Len(records) :
                i < j /\ records[i].conn = records[j].conn /\ records[i].kind = "mitm"

\* C6 witness: an inner request of a tunnel has been recorded.
C6_Witness ==
    \E j \in 1..Len(records) : records[j].kind = "inner" /\ records[j].method = "GET"

\* C7: an inner request received in origin form through the tunnel opened by
\* CONNECT host:port is forwarded and recorded under https://host:port/path?query.
C7_InnerUrlCarriesTunnelPort ==
    /\ \A j \in 1..Len(records) :
          records[j].kind = "inner" =>
              records[j].url = Url("https", tunnel[records[j].conn].host,
                                   tunnel[records[j].conn].port, records[j].url.path)
    /\ \A c \in Conns :
          (cur[c].kind = "inner" /\ pc[c] \in {"fwd", "insert", "send"}) =>
              cur[c].url = Url("https", tunnel[c].host, tunnel[c].port, cur[c].url.path)

\* A handler whose forward failed has sent upstream at most once, has appended
\* exactly one record, with status 502 and body "Proxy Error: {e}", and returns a
\* 502 with the same body.
FailureRecorded ==
    \A c \in Conns :
        (Replying(c, Forwarding) /\ cur[c].failed) =>
            /\ cur[c].sends <= 1
            /\ Cardinality(OwnEntries(c)) = 1
            /\ \A i \in OwnEntries(c) :
                  /\ records[i].response.status = 502
                  /\ records[i].response.body =
                        <<"Proxy Error: ", "Proxy server error: ", cur[c].err>>
            /\ cur[c].reply.status = 502
            /\ cur[c].reply.body = <<"Proxy Error: ", "Proxy server error: ", cur[c].err>>

\* The connection task of a failed forward goes on to read the next request.
TaskGoesOn ==
    \A c \in Conns :
        (Replying(c, Forwarding) /\ cur[c].failed /\ pc'[c] # pc[c]) => pc'[c] = "reading"

\* C8: a failed forward is attempted once, leaves exactly one record with status
\* 502 and body "Proxy Error: {e}", is answered 502 with the same body, and the
\* error does not leave the handler: the connection task goes on serving.
C8_ForwardFailure == []FailureRecorded /\ [][TaskGoesOn]_vars

\* C8 witness: a forward failed after the request was sent upstream and its
\* handler is about to return.
C8_Witness ==
    \E c \in Conns :
        /\ Replying(c, Forwarding) /\ cur[c].failed
        /\ cur[c].sends = 1 /\ cur[c].err = "Failed to read response body"

\* C9: the response body a forwarding handler returns to the client is the body
\* stored in the exchange it recorded.
C9_DeliveredBodyIsRecorded ==
    \A c \in Conns :
        Replying(c, Forwarding) =>
            /\ Cardinality(OwnEntries(c)) = 1
            /\ \A i \in OwnEntries(c) : records[i].response.body = cur[c].reply.body

\* C9 witness: a forward succeeded and its handler returns the origin's body.
C9_Witness ==
    \E c \in Conns :
        /\ Replying(c, Forwarding) /\ ~cur[c].failed
        /\ cur[c].reply.body = <<"hello">>

\* C10: no hop-by-hop header of the origin's response is in the response headers
\* returned to the client or stored in the exchange's response record.
C10_NoHopByHopFromOrigin ==
    /\ \A i \in 1..Len(records) :
          records[i].kind \in Forwarding =>
              \A h \in records[i].response.headers : ~is_hop_by_hop_header(h)
    /\ \A c \in Conns :
          Replying(c, Forwarding) =>
              \A h \in cur[c].reply.headers : ~is_hop_by_hop_header(h)

----------------------------------------------------------------------------
\* C11: for every forwarded request, the request handed to the pooled client
\* carries no header whose lower-cased name is one of the eight hop-by-hop names.
C11_NoHopByHopToOrigin ==
    \A c \in Conns :
        cur[c].sends > 0 =>
            \A h \in cur[c].out : to_lowercase(h) \notin HopByHop

\* A request that came with a connection header has been sent to the origin.
C11_Witness ==
    \E c \in Conns :
        /\ cur[c].sends = 1 /\ ~cur[c].failed
        /\ "connection" \in cur[c].hdrs
        /\ cur[c].out = {"accept", "host"}

----------------------------------------------------------------------------
\* Replay server (serve/).  A response header map is a function from names to
\* values; a body is the sequence of its pieces and body.len() counts them.

MaxRecords == 2        \* exchanges in a snapshot

Exchange(method, url, status, headers, body) ==
    [method |-> method, url |-> url,
     response |-> [status |-> status, headers |-> headers, body |-> body]]

\* Exchanges a recording can hold: forwarded requests with the origin's headers,
\* a request whose URL did not parse (502), the CONNECT entries of
\* handle_connect_mitm (200) and of handle_connect_request (502).
SnapshotRecords ==
    { Exchange("GET", Url("https", "s.com", "", "/x?q=1"), 200,
               ("content-type" :> "text/html") @@ ("content-length" :> "9"), <<"a", "b">>),
      Exchange("GET", Url("http", "s.com", "", "/x?q=1"), 200,
               ("content-type" :> "text/css") @@ ("transfer-encoding" :> "chunked")
                   @@ ("connection" :> "keep-alive"), <<"c">>),
      Exchange("GET", Url("https", "s.com", "", "/x?q=2"), 404, EmptyMap, <<>>),
      Exchange("GET", Url("https", "t.com", "", "/x"), 200,
               ("custom-header" :> "should-be-kept"), <<"d">>),
      Exchange("GET", Url("http", "[::zz]", "", "/x"), 502, EmptyMap,
               <<"Proxy Error: ", "Proxy server error: ", "Invalid URL">>),
      Exchange("POST", Url("https", "s.com", "", "/x?q=1"), 201, EmptyMap, <<>>),
      Exchange("CONNECT", Url("https", "s.com", "443", ""), 200,
               ("Connection" :> "established"), <<>>),
      Exchange("CONNECT", Url("https", "s.com", "443", ""), 502, EmptyMap,
               <<"Failed to connect to ", "s.com", "443">>),
      Exchange("CONNECT", Url("https", "s.com", "8443", ""), 200,
               ("Connection" :> "established"), <<"e">>) }

Snapshots == UNION { [1..n -> SnapshotRecords] : n \in 0..MaxRecords }

\* Requests a client may send to the replay server's listener.
DirectRequests ==
    { [method |-> "GET", uri |-> Url("http", "s.com", "", "/x?q=1"), host |-> "s.com"],
      [method |-> "GET", uri |-> Url("", "", "", "/x?q=1"), host |-> "t.com"],
      [method |-> "GET", uri |-> Url("", "", "", "/y?a=1&b=2"), host |-> "s.com"],
      [method |-> "GET", uri |-> Url("http", "[::zz]", "", "/x"), host |-> "[::zz]"],
      [method |-> "CONNECT", uri |-> Url("", "s.com", "443", ""), host |-> "s.com"],
      [method |-> "CONNECT", uri |-> Url("", "s.com", "8443", ""), host |-> "s.com"],
      [method |-> "CONNECT", uri |-> Url("", "u.com", "443", ""), host |-> "u.com"] }

\* Requests a client may send inside the replay server's tunnel.
TunnelRequests ==
    { [method |-> "GET", uri |-> Url("", "", "", "/x?q=1"), host |-> "s.com"],
      [method |-> "GET", uri |-> Url("", "", "", "/y?a=1&b=2"), host |-> "s.com"],
      [method |-> "CONNECT", uri |-> Url("", "s.com", "443", ""), host |-> "s.com"] }

----------------------------------------------------------------------------
\* request_matcher.rs

\* url::Url::path and url::Url::query of a path-and-query text
url_path(u) ==
    CASE u.path = "" -> "/"
      [] u.path = "/x?q=1" -> "/x"
      [] u.path = "/x?q=2" -> "/x"
      [] u.path = "/y?a=1&b=2" -> "/y"
      [] u.path = "/b?q=1" -> "/b"
      [] OTHER -> u.path
url_query(u) ==
    CASE u.path = "/x?q=1" -> "q=1"
      [] u.path = "/x?q=2" -> "q=2"
      [] u.path = "/y?a=1&b=2" -> "a=1&b=2"
      [] u.path = "/b?q=1" -> "q=1"
      [] OTHER -> ""
host_str(u) == u.host

\* Mutant of normalize_connect_url: the scheme prefix is kept.
KeepScheme(url) == url

\* The closure normalize_connect_url: a leading https:// or http:// is removed
normalize_connect_url(url) ==
    IF url.scheme \in {"https", "http"} THEN [url EXCEPT !.scheme = ""] ELSE url

\* format!("https://{}", normalized): a text that still has a scheme prefix reads
\* as a URL whose host is that scheme name
WithHttps(normalized) ==
    IF normalized.scheme = "" THEN [normalized EXCEPT !.scheme = "https"]
    ELSE Url("https", normalized.scheme, "", "//")

\* Mutant of ConnectMatch: any CONNECT entry matches any target.
ConnectMatchAny(record, full_url) == record.method = "CONNECT"

\* The test of the CONNECT loop for one record
ConnectMatch(record, full_url) ==
    /\ record.method = "CONNECT"
    /\ LET normalized_recorded == normalize_connect_url(record.url)
           normalized_request == normalize_connect_url(full_url)
       IN \/ normalized_recorded = normalized_request
          \/ /\ UrlParses(WithHttps(normalized_recorded))
             /\ UrlParses(WithHttps(normalized_request))
             /\ host_str(WithHttps(normalized_recorded)) = host_str(WithHttps(normalized_request))

\* The tests of the four non-CONNECT loops for one record
ExactMatch(record, method_str, full_url) ==
    record.method = method_str /\ record.url = full_url
HostPathQueryMatch(record, method_str, request_url) ==
    /\ record.method = method_str
    /\ UrlParses(record.url)
    /\ host_str(record.url) = host_str(request_url)
    /\ url_path(record.url) = url_path(request_url)
    /\ url_query(record.url) = url_query(request_url)
HostPathMatch(record, method_str, request_url) ==
    /\ record.method = method_str
    /\ UrlParses(record.url)
    /\ host_str(record.url) = host_str(request_url)
    /\ url_path(record.url) = url_path(request_url)
PathOnlyMatch(record, method_str, request_url) ==
    /\ record.method = method_str
    /\ UrlParses(record.url)
    /\ url_path(record.url) = url_path(request_url)

\* A for loop that returns at the first record passing the test; 0 is None
FirstIndex(log, Test(_)) ==
    IF \E i \in 1..Len(log) : Test(log[i])
    THEN CHOOSE i \in 1..Len(log) : Test(log[i]) /\ \A j \in 1..(i - 1) : ~Test(log[j])
    ELSE 0

find_matching_record(snap, method, full_url) ==
    IF method = "CONNECT"
    THEN FirstIndex(snap, LAMBDA r : ConnectMatch(r, full_url))
    ELSE IF ~UrlParses(full_url) THEN 0
    ELSE LET exact == FirstIndex(snap, LAMBDA r : ExactMatch(r, method, full_url))
             hpq == FirstIndex(snap, LAMBDA r : HostPathQueryMatch(r, method, full_url))
             hp == FirstIndex(snap, LAMBDA r : HostPathMatch(r, method, full_url))
             po == FirstIndex(snap, LAMBDA r : PathOnlyMatch(r, method, full_url))
         IN IF exact # 0 THEN exact
            ELSE IF hpq # 0 THEN hpq
            ELSE IF hp # 0 THEN hp
            ELSE po

----------------------------------------------------------------------------
\* response_builder.rs

\* usize::to_string
to_string(n) ==
    CASE n = 0 -> "0" [] n = 1 -> "1" [] n = 2 -> "2" [] n = 3 -> "3" [] n = 4 -> "4"
      [] n = 5 -> "5" [] n = 6 -> "6" [] n = 7 -> "7" [] n = 8 -> "8" [] OTHER -> "9+"

Response(status, headers, body) == [status |-> status, headers |-> headers, body |-> body]

\* The status codes http::StatusCode accepts
StatusValid(status) == status \in 100..999

create_response_from_record(record) ==
    LET recorded == record.response.headers
        kept == {key \in DOMAIN recorded :
                    /\ to_lowercase(key) \notin {"content-length", "transfer-encoding"}
                    /\ to_lowercase(key) # "connection"}
        upgrade == /\ record.method = "CONNECT"
                   /\ \E key \in DOMAIN recorded : to_lowercase(key) = "connection"
        names == {to_lowercase(key) : key \in kept}
                     \cup (IF upgrade THEN {"connection"} ELSE {})
                     \cup {"content-length"}
        headers == [name \in names |->
                       IF name = "content-length" THEN to_string(Len(record.response.body))
                       ELSE IF name = "connection" THEN "upgrade"
                       ELSE recorded[CHOOSE key \in kept : to_lowercase(key) = name]]
    IN IF StatusValid(record.response.status)
       THEN Response(record.response.status, headers, record.response.body)
       ELSE Response(500, EmptyMap, <<"Internal server error">>)

\* The text of a URL, as the pieces format!() and Uri::to_string put together
UrlText(u) == <<u.scheme, u.host, u.port, u.path>>

\* html_escape::encode_text
html_escape(text) ==
    CASE text = "/y?a=1&b=2" -> "/y?a=1&amp;b=2"
      [] OTHER -> text
encode_text(pieces) == [i \in DOMAIN pieces |-> html_escape(pieces[i])]

create_404_response(url) ==
    Response(404, ("content-type" :> "text/html; charset=utf-8"),
             <<"<!DOCTYPE html><html>...404 Not Found...<div class=url>">>
                 \o encode_text(UrlText(url)) \o <<"</div>...</html>">>)

\* Mutant of Framed: the response is written with the headers the handler set.
FramedAsBuilt(method, response) == response

\* The connection driver writes the response: a 2xx answer to CONNECT goes out
\* without Content-Length, any other answer that has none gets the body's length.
Framed(method, response) ==
    IF method = "CONNECT" /\ response.status \in 200..299
    THEN [response EXCEPT !.headers =
             [name \in DOMAIN response.headers \ {"content-length"} |-> response.headers[name]]]
    ELSE IF "content-length" \in DOMAIN response.headers THEN response
    ELSE [response EXCEPT !.headers = ("content-length" :> to_string(Len(response.body))) @@ @]

----------------------------------------------------------------------------
\* serve/mod.rs and serve/proxy/mod.rs

ServeInit ==
    /\ snapshot \in Snapshots
    /\ spc = "accepting"
    /\ host_port = NoTunnel
    /\ handled = NoHandled

\* serve/mod.rs: the accept loop takes a connection
ServeAccept ==
    /\ spc \in {"accepting", "closed"}
    /\ spc' = "reading"
    /\ host_port' = NoTunnel
    /\ handled' = NoHandled
    /\ UNCHANGED <<notServe, snapshot>>

UriStartsWithHttp(uri) == uri.scheme \in {"http", "https"}

\* proxy/mod.rs: handle_http_request
HttpFullUrl(req) ==
    IF UriStartsWithHttp(req.uri) THEN req.uri
    ELSE Url("http", "unknown", "", req.uri.path)

ServeHttp(req) ==
    /\ spc = "reading"
    /\ req.method # "CONNECT"
    /\ LET full_url == HttpFullUrl(req)
           m == find_matching_record(snapshot, req.method, full_url)
           response == IF m # 0 THEN create_response_from_record(snapshot[m])
                       ELSE create_404_response(full_url)
       IN handled' = [where |-> "direct", method |-> req.method, uri |-> req.uri,
                      host |-> req.host, full_url |-> full_url, matched |-> m,
                      spawned |-> FALSE, response |-> response,
                      wire |-> Framed(req.method, response)]
    /\ UNCHANGED <<notServe, snapshot, spc, host_port>>

\* serve/mod.rs: handle_request_internal, the authority of a CONNECT
HostPort(uri) ==
    IF uri.host = "" THEN [host |-> "unknown", port |-> "443"]
    ELSE [host |-> uri.host, port |-> uri.port]

\* proxy/mod.rs: handle_connect_request and spawn_tunnel_handler
ServeConnect(req) ==
    /\ spc = "reading"
    /\ req.method = "CONNECT"
    /\ LET hp == HostPort(req.uri)
           connect_url == Url("https", hp.host, hp.port, "")
           m == find_matching_record(snapshot, req.method, connect_url)
           response ==
               IF m # 0
               THEN Response(200, ("connection" :> "upgrade")
                                      @@ ("proxy-agent" :> "WebMock-CLI/1.0"), <<>>)
               ELSE Response(502, ("connection" :> "close"),
                             <<"CONNECT request not found in snapshot: ", hp.host, hp.port>>)
       IN /\ handled' = [where |-> "connect", method |-> req.method, uri |-> req.uri,
                         host |-> req.host, full_url |-> connect_url, matched |-> m,
                         spawned |-> (m # 0), response |-> response,
                         wire |-> Framed(req.method, response)]
          /\ spc' = IF m # 0 THEN "upgrade" ELSE "closed"
          /\ host_port' = IF m # 0 THEN hp ELSE host_port
    /\ UNCHANGED <<notServe, snapshot>>

\* proxy/mod.rs: the spawned task awaits the upgrade, then handle_https_tunnel
\* performs the TLS handshake
ServeUpgrade(ok) ==
    /\ spc = "upgrade"
    /\ spc' = IF ok THEN "tunnel" ELSE "closed"
    /\ UNCHANGED <<notServe, snapshot, host_port, handled>>

\* proxy/mod.rs: handle_tunneled_request
TunnelFullUrl(hp, uri) ==
    IF UriStartsWithHttp(uri) THEN uri
    ELSE Url("https", hp.host, hp.port, uri.path)

ServeTunneled(req) ==
    /\ spc = "tunnel"
    /\ LET full_url == TunnelFullUrl(host_port, req.uri)
           m == find_matching_record(snapshot, req.method, full_url)
           response ==
               IF m # 0 THEN create_response_from_record(snapshot[m])
               ELSE Response(404, ("connection" :> "close"),
                             <<"Tunneled request not found in snapshot: ", req.method, " ">>
                                 \o UrlText(full_url))
       IN /\ handled' = [where |-> "tunnel", method |-> req.method, uri |-> req.uri,
                         host |-> req.host, full_url |-> full_url, matched |-> m,
                         spawned |-> FALSE, response |-> response,
                         wire |-> Framed(req.method, response)]
          /\ spc' = IF "connection" \in DOMAIN response.headers THEN "closed" ELSE "tunnel"
    /\ UNCHANGED <<notServe, snapshot, host_port>>

NextServe ==
    \/ ServeAccept
    \/ \E req \in DirectRequests : ServeHttp(req)
    \/ \E req \in DirectRequests : ServeConnect(req)
    \/ \E ok \in BOOLEAN : ServeUpgrade(ok)
    \/ \E req \in TunnelRequests : ServeTunneled(req)

InitServe == ProxyInit /\ ServeInit /\ StoreInit /\ IdleOff /\ NavOff /\ CaptureOff /\ LaterOff

SpecServe == InitServe /\ [][NextServe]_vars

----------------------------------------------------------------------------
\* The request handled last was a non-CONNECT request
HandledRequest == handled.where \in {"direct", "tunnel"} /\ handled.method # "CONNECT"

\* The four rules, strongest first, between a record and a query (m, u); the
\* host, path and query of a URL are those of its parse.
Satisfies(k, r, m, u) ==
    /\ r.method = m
    /\ CASE k = 1 -> r.url = u
         [] k = 2 -> /\ UrlParses(r.url) /\ UrlParses(u)
                     /\ r.url.host = u.host
                     /\ url_path(r.url) = url_path(u) /\ url_query(r.url) = url_query(u)
         [] k = 3 -> /\ UrlParses(r.url) /\ UrlParses(u)
                     /\ r.url.host = u.host /\ url_path(r.url) = url_path(u)
         [] k = 4 -> /\ UrlParses(r.url) /\ UrlParses(u)
                     /\ url_path(r.url) = url_path(u)

\* C12: for a non-CONNECT query (m, u) the matcher returns the earliest record
\* of method m under the strongest of the rules exact URL, host+path+query,
\* host+path, path only that some record satisfies, and nothing if none does.
C12_StrongestRuleEarliestRecord ==
    HandledRequest =>
        LET m == handled.method
            u == handled.full_url
            idx == 1..Len(snapshot)
            met == {k \in 1..4 : \E i \in idx : Satisfies(k, snapshot[i], m, u)}
        IN IF met = {} THEN handled.matched = 0
           ELSE LET best == CHOOSE k \in met : \A j \in met : k <= j
                    hits == {i \in idx : Satisfies(best, snapshot[i], m, u)}
                IN handled.matched = CHOOSE i \in hits : \A j \in hits : i <= j

\* C13: a CONNECT query written host:port and the same query written
\* https://host:port give the same result - the same entry, or none for both.
C13_BareAndHttpsAgree ==
    handled.where = "connect" =>
        find_matching_record(snapshot, "CONNECT", [handled.full_url EXCEPT !.scheme = ""])
            = handled.matched

\* A CONNECT was matched to the second entry of the snapshot, written either way.
C13_Witness ==
    /\ handled.where = "connect" /\ handled.matched = 2
    /\ handled.full_url = Url("https", "s.com", "443", "")
    /\ find_matching_record(snapshot, "CONNECT", Url("", "s.com", "443", "")) = 2

\* C14: for a non-CONNECT request in origin form, the URL given to the matcher
\* is built from the Host header and the request's path and query.
C14_OriginFormUsesHostHeader ==
    (handled.where = "direct" /\ handled.uri.scheme = "") =>
        /\ handled.full_url.host = handled.host
        /\ handled.full_url.path = handled.uri.path

C16_ReplayedStatusAndHeaders ==
    (handled.where \in {"direct", "tunnel"} /\ handled.matched # 0) =>
        LET record == snapshot[handled.matched]
            recorded == record.response.headers
            sent == handled.response.headers
        IN /\ handled.response.status = record.response.status
           /\ \A key \in DOMAIN recorded :
                 to_lowercase(key) \notin {"transfer-encoding", "connection", "content-length"}
                     => /\ to_lowercase(key) \in DOMAIN sent
                        /\ sent[to_lowercase(key)] = recorded[key]
           /\ ("connection" \in DOMAIN sent) = (record.method = "CONNECT")
           /\ record.method = "CONNECT" => sent["connection"] = "upgrade"

\* The body names the URL: its text, HTML-escaped, is part of the body.
BodyNames(body, url) ==
    \E k \in 1..Len(body) :
        /\ k + 3 <= Len(body)
        /\ SubSeq(body, k, k + 3) = encode_text(UrlText(url))

\* C17: a non-CONNECT request that matches no record, direct or inside the
\* tunnel, is answered 404 with an HTML body that contains the requested URL.
C17_MissIs404Html ==
    (HandledRequest /\ handled.matched = 0) =>
        /\ handled.response.status = 404
        /\ "content-type" \in DOMAIN handled.response.headers
        /\ handled.response.headers["content-type"] = "text/html; charset=utf-8"
        /\ BodyNames(handled.response.body, handled.full_url)

\* The snapshot has a CONNECT entry for the target: the same host:port, or the
\* same host.
HasConnectEntry(target) ==
    \E i \in 1..Len(snapshot) :
        /\ snapshot[i].method = "CONNECT"
        /\ \/ /\ snapshot[i].url.host = target.host
              /\ snapshot[i].url.port = target.port
              /\ snapshot[i].url.path = ""
           \/ /\ UrlParses(snapshot[i].url) /\ UrlParses(target)
              /\ snapshot[i].url.host = target.host

\* C18: a CONNECT whose target has no CONNECT entry in the snapshot is answered
\* 502 with Connection: close and an error body; no tunnel task is spawned and
\* the connection neither upgrades nor serves inner requests.
C18_ConnectMissIs502 ==
    (handled.where = "connect" /\ ~HasConnectEntry(handled.full_url)) =>
        /\ handled.wire.status = 502
        /\ "connection" \in DOMAIN handled.wire.headers
        /\ handled.wire.headers["connection"] = "close"
        /\ handled.wire.body # <<>>
        /\ ~handled.spawned
        /\ spc = "closed"
        /\ host_port = NoTunnel

\* A CONNECT to u.com:443 was refused by a snapshot that has a CONNECT entry for
\* another host.
C18_Witness ==
    /\ handled.where = "connect" /\ handled.uri.host = "u.com"
    /\ handled.wire.status = 502
    /\ \E i \in 1..Len(snapshot) : snapshot[i].method = "CONNECT"
    /\ spc = "closed"

\* The CONNECT entries of the snapshot recorded for exactly the authority of u
ExactConnectEntries(u) ==
    {i \in 1..Len(snapshot) :
        /\ snapshot[i].method = "CONNECT"
        /\ snapshot[i].url.host = u.host /\ snapshot[i].url.port = u.port}

\* C36: a CONNECT to host:port for which the snapshot holds a CONNECT entry with
\* exactly that host:port is matched to the earliest such entry, also when an
\* entry of the same host with another port is in the snapshot.
C36_ExactAuthorityPreferred ==
    (handled.where = "connect" /\ ExactConnectEntries(handled.full_url) # {}) =>
        /\ handled.matched \in ExactConnectEntries(handled.full_url)
        /\ \A i \in ExactConnectEntries(handled.full_url) : handled.matched <= i

\* C37: the response to a request depends only on the snapshot and on the
\* request's method and URL: a request with the method and the URL of the request
\* handled before it gets the same response, matched to the same entry, and the
\* snapshot never changes.
C37_SameRequestSameResponse ==
    [][/\ snapshot' = snapshot
       /\ (/\ handled.where # "none"
           /\ handled'.method = handled.method
           /\ handled'.full_url = handled.full_url)
          => /\ handled'.matched = handled.matched
             /\ handled'.wire = handled.wire]_vars

----------------------------------------------------------------------------
\* Snapshot store (storage/).  A string or byte string is modelled by what it
\* holds and its length in bytes, so that sizes around the two thresholds can
\* be reached; a header map is the sequence of its entries.

MaxExchanges == 1      \* exchanges in a snapshot that is saved

COMPRESSION_THRESHOLD == 1024 * 1024
STREAM_THRESHOLD == 50 * 1024 * 1024

Text(data, len) == [data |-> data, len |-> len]
None == [some |-> FALSE, data |-> "", len |-> 0]
Some(text) == [some |-> TRUE, data |-> text.data, len |-> text.len]

StoreExchange(headers, body, response_body) ==
    [method |-> Text("GET", 3), url |-> Text("https://s.com/x", 15),
     headers |-> headers, body |-> body,
     response |-> [status |-> 200, headers |-> <<>>, body |-> response_body,
                   content_type |-> Text("text/html", 9)],
     timestamp |-> "2024-01-01T00:00:01Z"]

\* Exchanges with a short body, with a body that takes the estimate over the
\* streaming threshold, and with one that stays below it while its encoding does not.
StoreRecords ==
    { StoreExchange(<<[k |-> Text("accept", 6), v |-> Text("*/*", 3)]>>, None,
                    Text("html", 2)),
      StoreExchange(<<>>, Some(Text("form", 4)), Text("video", 60 * 1024 * 1024)),
      StoreExchange(<<>>, Some(Text("", 0)), Text("image", 45 * 1024 * 1024)) }

StoreNames == {"a", "b"}

\* Page URLs: a short one and three that put the encoding of a snapshot without
\* exchanges one byte below, at, and one byte above the compression threshold
\* (the envelope around the URL takes 37 bytes).
PageUrls ==
    {Text("https://s.com/", 14)}
        \cup {Text("long", COMPRESSION_THRESHOLD - 37 + d) : d \in {-1, 0, 1}}

StoreSnapshot(name, url, requests) ==
    [name |-> name, url |-> url, created_at |-> "2024-01-01T00:00:00Z",
     requests |-> requests]

StoreSnapshots ==
    {StoreSnapshot(name, url, <<>>) : name \in StoreNames, url \in PageUrls}
        \cup UNION { {StoreSnapshot(name, Text("https://s.com/", 14), requests) :
                         name \in StoreNames, requests \in [1..n -> StoreRecords]}
                     : n \in 1..MaxExchanges }

----------------------------------------------------------------------------
\* records/serialization.rs: base64 of a body, and back

Base64Len(n) == 4 * ((n + 2) \div 3)
base64_encode(body) ==
    [b64 |-> body.data, len |-> Base64Len(body.len), pad |-> (3 - (body.len % 3)) % 3]
base64_decode(encoded) == Text(encoded.b64, (encoded.len \div 4) * 3 - encoded.pad)

\* body_serialization and optional_body_serialization
EncodeBody(body) == base64_encode(body)
DecodeBody(encoded) == base64_decode(encoded)
EncodeOptionalBody(body) ==
    IF body.some THEN [some |-> TRUE, str |-> base64_encode(body)]
    ELSE [some |-> FALSE, str |-> base64_encode(Text("", 0))]
DecodeOptionalBody(encoded) ==
    IF encoded.some THEN Some(base64_decode(encoded.str)) ELSE None

EncodeExchange(r) ==
    [r EXCEPT !.body = EncodeOptionalBody(r.body),
              !.response = [r.response EXCEPT !.body = EncodeBody(r.response.body)]]
DecodeExchange(e) ==
    [e EXCEPT !.body = DecodeOptionalBody(e.body),
              !.response = [e.response EXCEPT !.body = DecodeBody(e.response.body)]]

----------------------------------------------------------------------------
\* storage/serialization.rs

RECURSIVE SumSeq(_)
SumSeq(sizes) == IF sizes = <<>> THEN 0 ELSE Head(sizes) + SumSeq(Tail(sizes))
SumOver(seq, Size(_)) == SumSeq([i \in DOMAIN seq |-> Size(seq[i])])

\* Sizes of the MessagePack encoding rmp_serde::to_vec produces (structs are arrays)
StrSize(n) == n + (IF n < 32 THEN 1 ELSE IF n < 256 THEN 2 ELSE IF n < 65536 THEN 3 ELSE 5)
SeqSize(n) == IF n < 16 THEN 1 ELSE IF n < 65536 THEN 3 ELSE 5
IntSize(n) == IF n < 128 THEN 1 ELSE IF n < 256 THEN 2 ELSE 3
HeadersSize(headers) ==
    SeqSize(Len(headers))
        + SumOver(headers, LAMBDA h : StrSize(h.k.len) + StrSize(h.v.len))
ExchangeSize(r) ==
    1 + StrSize(r.method.len) + StrSize(r.url.len) + HeadersSize(r.headers)
      + (IF r.body.some THEN StrSize(Base64Len(r.body.len)) ELSE 1)
      + (1 + IntSize(r.response.status) + HeadersSize(r.response.headers)
           + StrSize(Base64Len(r.response.body.len)) + StrSize(r.response.content_type.len))
      + StrSize(20)
MsgpackSize(snapshot_data) ==
    1 + (1 + StrSize(1) + StrSize(snapshot_data.metadata.url.len) + StrSize(20) + StrSize(5))
      + SeqSize(Len(snapshot_data.requests))
      + SumOver(snapshot_data.requests, ExchangeSize)

\* The SnapshotData that serialize and serialize_streaming build
SnapshotDataOf(s) ==
    [metadata |-> [name |-> s.name, url |-> s.url, created_at |-> s.created_at,
                   version |-> "0.1.0"],
     requests |-> s.requests]

\* rmp_serde::to_vec and rmp_serde::encode::write
to_vec(snapshot_data) ==
    [kind |-> "msgpack", metadata |-> snapshot_data.metadata,
     requests |-> [i \in DOMAIN snapshot_data.requests |->
                      EncodeExchange(snapshot_data.requests[i])],
     len |-> MsgpackSize(snapshot_data)]

\* The lengths a gzip stream of n bytes may have: well compressed, or stored
CompressedLens(n) == {n \div 20 + 18, n + 18}

\* compress_data, GzEncoder: every outcome the compressor may give
compress_data(data) ==
    {[kind |-> "gzip", inner |-> data, len |-> c] : c \in CompressedLens(data.len)}

\* The first two bytes of encoded data: the gzip magic, or the array headers of
\* the envelope and its metadata
FirstTwo(data) ==
    CASE data.kind = "gzip" -> <<31, 139>>
      [] data.kind = "msgpack" -> <<146, 148>>
      [] OTHER -> <<105, 110>>

\* Mutant of is_compressed: the magic is never recognised.
NeverCompressed(data) == FALSE

is_compressed(data) ==
    data.len >= 2 /\ FirstTwo(data)[1] = 31 /\ FirstTwo(data)[2] = 139

\* serialize: the outcomes of the buffered path
serialize(s) ==
    LET msgpack_data == to_vec(SnapshotDataOf(s)) IN
    IF msgpack_data.len > COMPRESSION_THRESHOLD THEN compress_data(msgpack_data)
    ELSE {msgpack_data}

\* estimate_size, and Storage::estimate_snapshot_size which repeats it
estimate_size(requests) ==
    1024 + SumOver(requests,
                   LAMBDA req : req.url.len + req.method.len
                       + SumOver(req.headers, LAMBDA h : h.k.len + h.v.len)
                       + req.body.len + req.response.body.len
                       + SumOver(req.response.headers, LAMBDA h : h.k.len + h.v.len))

\* serialize_streaming: the outcomes of the streaming path
serialize_streaming(s) ==
    LET snapshot_data == SnapshotDataOf(s)
        estimated_size == estimate_size(snapshot_data.requests)
    IN IF estimated_size > COMPRESSION_THRESHOLD THEN compress_data(to_vec(snapshot_data))
       ELSE {to_vec(snapshot_data)}

Ok(value) == [ok |-> TRUE, error |-> "", value |-> value]
Err(error) == [ok |-> FALSE, error |-> error, value |-> NoSnapshot]

\* rmp_serde::from_slice and from_read, followed by the construction of the Snapshot
from_slice(data) ==
    IF data.kind = "msgpack"
    THEN Ok([name |-> data.metadata.name, url |-> data.metadata.url,
             created_at |-> data.metadata.created_at,
             requests |-> [i \in DOMAIN data.requests |-> DecodeExchange(data.requests[i])]])
    ELSE Err("Deserialization")

\* decompress_data, GzDecoder
decompress_data(data) == data.inner

deserialize(data) ==
    IF is_compressed(data) THEN from_slice(decompress_data(data)) ELSE from_slice(data)

deserialize_streaming(data) ==
    IF data.len >= 2 /\ FirstTwo(data)[1] = 31 /\ FirstTwo(data)[2] = 139
    THEN from_slice(decompress_data(data))
    ELSE from_slice(data)

----------------------------------------------------------------------------
\* storage/mod.rs

\* get_snapshot_path(name).exists(): the directory has an entry {name}.msgpack
PathExists(name) ==
    \/ name \in DOMAIN files
    \/ \E f \in foreign : f.stem = name /\ f.extension = "msgpack"

\* The files save_snapshot may leave for a snapshot, on the path that its
\* estimated size selects
WrittenFiles(s) ==
    LET path == IF estimate_size(s.requests) > STREAM_THRESHOLD THEN "streaming"
                ELSE "buffered"
        outcomes == IF path = "streaming" THEN serialize_streaming(s) ELSE serialize(s)
    IN {[data |-> data, of |-> s, path |-> path] : data \in outcomes}

\* Storage::save_snapshot
Save(s) ==
    /\ \E file \in WrittenFiles(s) : files' = (s.name :> file) @@ files
    /\ loaded' = NoLoad
    /\ written' = NoWrite
    /\ answer' = NoAnswer
    /\ gone' = gone \ {s.name}
    /\ UNCHANGED <<notStore, foreign>>

\* Storage::load_snapshot
Load(name) ==
    /\ IF ~PathExists(name)
       THEN loaded' = [name |-> name, via |-> "none", ok |-> FALSE,
                       error |-> "SnapshotNotFound", value |-> NoSnapshot]
       ELSE LET data == files[name].data
                via == IF data.len > STREAM_THRESHOLD THEN "streaming" ELSE "buffered"
                r == IF via = "streaming" THEN deserialize_streaming(data)
                     ELSE deserialize(data)
            IN loaded' = [name |-> name, via |-> via, ok |-> r.ok, error |-> r.error,
                          value |-> r.value]
    /\ written' = NoWrite
    /\ answer' = NoAnswer
    /\ UNCHANGED <<notStore, files, foreign, gone>>

\* SnapshotSerializer::serialize_streaming called with a writer of the caller
SerializeStreaming(s) ==
    /\ \E data \in serialize_streaming(s) :
          written' = [of |-> s, path |-> "streaming", data |-> data]
    /\ loaded' = NoLoad
    /\ answer' = NoAnswer
    /\ UNCHANGED <<notStore, files, foreign, gone>>

NextStore ==
    \/ \E s \in StoreSnapshots : Save(s)
    \/ \E name \in StoreNames : Load(name)
    \/ \E s \in StoreSnapshots : SerializeStreaming(s)

InitStore == ProxyInit /\ ServeOff /\ StoreInit /\ IdleOff /\ NavOff /\ CaptureOff /\ LaterOff

SpecStore == InitStore /\ [][NextStore]_vars

----------------------------------------------------------------------------
Encoded ==
    {[of |-> files[n].of, path |-> files[n].path, data |-> files[n].data] : n \in DOMAIN files}
        \cup (IF written.path = "none" THEN {} ELSE {written})

\* C20: an encoded snapshot begins with the gzip magic 1F 8B if and only if its
\* uncompressed encoded size is strictly greater than COMPRESSION_THRESHOLD, on
\* the buffered and on the streaming path alike.
C20_GzipIffAboveThreshold ==
    \A e \in Encoded :
        (FirstTwo(e.data) = <<31, 139>>)
            = (MsgpackSize(SnapshotDataOf(e.of)) > COMPRESSION_THRESHOLD)

----------------------------------------------------------------------------
\* The snapshots directory (storage/mod.rs): exists, delete and list, beside
\* entries that were put there by other means.

\* chrono's RFC 3339 texts of the creation times, and the instants they denote
DirTimes == {"2024-01-01T00:00:00Z", "2024-01-02T00:00:00Z"}
Instant(created_at) ==
    CASE created_at = "2024-01-01T00:00:00Z" -> 1
      [] created_at = "2024-01-02T00:00:00Z" -> 2
      [] OTHER -> 0

\* The snapshots saved here: without exchanges, written plain or (long URL) as gzip
DirSnapshots ==
    {[StoreSnapshot(name, url, <<>>) EXCEPT !.created_at = t] :
        name \in StoreNames, t \in DirTimes,
        url \in {Text("https://s.com/", 14), Text("long", COMPRESSION_THRESHOLD - 36)}}

\* Bytes that are no MessagePack, and a gzip stream that does not hold any
Garbage == [kind |-> "garbage", metadata |-> <<>>, requests |-> <<>>, len |-> 12]
BadGzip == [kind |-> "gzip", inner |-> Garbage, len |-> 30]

DirEntry(stem, extension, is_dir, data) ==
    [stem |-> stem, extension |-> extension, is_dir |-> is_dir, data |-> data]

\* readme.txt, invalid.msgpack (two contents), a directory dir.msgpack, and
\* copy.msgpack, a copy of a file that was saved under the name "a"
ForeignEntries ==
    { DirEntry("readme", "txt", FALSE, Garbage),
      DirEntry("invalid", "msgpack", FALSE, Garbage),
      DirEntry("invalid", "msgpack", FALSE, BadGzip),
      DirEntry("dir", "msgpack", TRUE, NoData),
      DirEntry("copy", "msgpack", FALSE,
               to_vec(SnapshotDataOf([StoreSnapshot("a", Text("https://s.com/", 14), <<>>)
                                         EXCEPT !.created_at = "2024-01-02T00:00:00Z"]))) }

\* Another program writes an entry into the snapshots directory.
WriteForeign(f) ==
    /\ foreign' = {g \in foreign : g.stem # f.stem \/ g.extension # f.extension} \cup {f}
    /\ loaded' = NoLoad
    /\ written' = NoWrite
    /\ answer' = NoAnswer
    /\ UNCHANGED <<notStore, files, gone>>

\* Storage::snapshot_exists
Exists(name) ==
    /\ answer' = [op |-> "exists", name |-> name, ok |-> TRUE, error |-> "",
                  value |-> PathExists(name)]
    /\ loaded' = NoLoad
    /\ written' = NoWrite
    /\ UNCHANGED <<notStore, files, foreign, gone>>

\* Mutant of remove_file: the file stays.
KeepFile(dir, name) == dir

\* tokio::fs::remove_file
remove_file(dir, name) == [n \in DOMAIN dir \ {name} |-> dir[n]]

\* Storage::delete_snapshot
Delete(name) ==
    /\ IF ~PathExists(name)
       THEN /\ answer' = [op |-> "delete", name |-> name, ok |-> FALSE,
                          error |-> "SnapshotNotFound", value |-> <<>>]
            /\ UNCHANGED <<files, gone>>
       ELSE /\ files' = remove_file(files, name)
            /\ gone' = gone \cup {name}
            /\ answer' = [op |-> "delete", name |-> name, ok |-> TRUE, error |-> "",
                          value |-> <<>>]
    /\ loaded' = NoLoad
    /\ written' = NoWrite
    /\ UNCHANGED <<notStore, foreign>>

\* SnapshotSerializer::deserialize_metadata
deserialize_metadata(data) ==
    LET r == IF is_compressed(data) THEN from_slice(decompress_data(data))
             ELSE from_slice(data)
    IN IF r.ok THEN Ok([name |-> r.value.name, url |-> r.value.url,
                        created_at |-> r.value.created_at])
       ELSE r

\* Storage::load_snapshot_metadata of the entry {stem}.msgpack
load_snapshot_metadata(stem) ==
    IF stem \in DOMAIN files THEN deserialize_metadata(files[stem].data)
    ELSE LET f == CHOOSE g \in foreign : g.stem = stem /\ g.extension = "msgpack"
         IN IF f.is_dir THEN Err("Io") ELSE deserialize_metadata(f.data)

\* The stems of the entries of the directory whose extension is msgpack
MsgpackStems ==
    DOMAIN files \cup {f.stem : f \in {g \in foreign : g.extension = "msgpack"}}

\* The orders in which read_dir may yield the members of a set
Orders(S) ==
    {order \in [1..Cardinality(S) -> S] :
        \A i, j \in 1..Cardinality(S) : i # j => order[i] # order[j]}

\* Mutant of sort_by: the infos stay in the order read_dir gave.
Unsorted(snapshots) == snapshots

\* snapshots.sort_by(|a, b| b.created_at.cmp(&a.created_at)), a stable sort
RECURSIVE InsertNewestFirst(_, _)
InsertNewestFirst(info, sorted) ==
    IF sorted = <<>> THEN <<info>>
    ELSE IF Instant(Head(sorted).created_at) >= Instant(info.created_at)
         THEN <<Head(sorted)>> \o InsertNewestFirst(info, Tail(sorted))
         ELSE <<info>> \o sorted
RECURSIVE SortNewestFirst(_)
SortNewestFirst(infos) ==
    IF infos = <<>> THEN <<>>
    ELSE InsertNewestFirst(infos[Len(infos)],
                           SortNewestFirst(SubSeq(infos, 1, Len(infos) - 1)))
sort_by(snapshots) == SortNewestFirst(snapshots)

\* Mutant of the Err arm of list_snapshots: an entry that fails is pushed all the same.
PushAll(results) == results

\* The match in the loop of list_snapshots: Ok pushes, Err logs and goes on
PushOk(results) == SelectSeq(results, LAMBDA r : r.ok)

\* Storage::list_snapshots
List ==
    /\ \E order \in Orders(MsgpackStems) :
          LET results == [i \in DOMAIN order |-> load_snapshot_metadata(order[i])]
              pushed == PushOk(results)
              snapshots == [i \in DOMAIN pushed |-> pushed[i].value]
          IN answer' = [op |-> "list", name |-> "", ok |-> TRUE, error |-> "",
                        value |-> sort_by(snapshots)]
    /\ loaded' = NoLoad
    /\ written' = NoWrite
    /\ UNCHANGED <<notStore, files, foreign, gone>>

NextDir ==
    \/ \E s \in DirSnapshots : Save(s)
    \/ \E name \in StoreNames : Load(name)
    \/ \E name \in StoreNames : Exists(name)
    \/ \E name \in StoreNames : Delete(name)
    \/ \E f \in ForeignEntries : WriteForeign(f)
    \/ List

InitDir == ProxyInit /\ ServeOff /\ StoreInit /\ IdleOff /\ NavOff /\ CaptureOff /\ LaterOff

SpecDir == InitDir /\ [][NextDir]_vars

----------------------------------------------------------------------------
\* C21: once a saved snapshot has been deleted (and not saved again),
\* snapshot_exists of its name is false and load_snapshot of its name fails with
\* SnapshotNotFound.
C21_DeletedIsGone ==
    /\ (answer.op = "exists" /\ answer.name \in gone) => answer.value = FALSE
    /\ (loaded.name \in gone) => (~loaded.ok /\ loaded.error = "SnapshotNotFound")

\* A snapshot was saved and deleted, and the load that followed failed.
C21_Witness ==
    /\ loaded.name \in gone
    /\ loaded.error = "SnapshotNotFound"
    /\ files # EmptyMap

\* The infos of the msgpack entries that decode, as a sequence in some order
DecodableStems == {stem \in MsgpackStems : load_snapshot_metadata(stem).ok}

\* C22: in the result of list_snapshots an entry with a later creation time
\* stands before every entry with an earlier one.
C22_NewestFirst ==
    answer.op = "list" =>
        \A i, j \in 1..Len(answer.value) :
            Instant(answer.value[i].created_at) < Instant(answer.value[j].created_at)
                => j < i

\* Two saved snapshots with different creation times were listed.
C22_Witness ==
    /\ answer.op = "list" /\ Len(answer.value) = 2
    /\ DOMAIN files = StoreNames
    /\ Instant(files["a"].of.created_at) < Instant(files["b"].of.created_at)
    /\ answer.value[1].name = "b"

\* C23: list_snapshots succeeds, and its result holds one info for each msgpack
\* entry of the directory that decodes and nothing else; entries that fail to
\* decode (and entries with another extension) are left out.
C23_ListIsExactlyDecodable ==
    answer.op = "list" =>
        /\ answer.ok
        /\ Len(answer.value) = Cardinality(DecodableStems)
        /\ \E order \in Orders(DecodableStems) :
              \A i \in 1..Len(answer.value) :
                  answer.value[i] = load_snapshot_metadata(order[i]).value

\* A listing left out an undecodable file, a directory and a text file, and
\* returned the one snapshot that was saved.
C23_Witness ==
    /\ answer.op = "list" /\ answer.ok /\ Len(answer.value) = 1
    /\ DOMAIN files = {"a"}
    /\ \E f \in foreign : f.stem = "invalid" /\ f.data = BadGzip
    /\ \E f \in foreign : f.is_dir
    /\ \E f \in foreign : f.extension = "txt"

----------------------------------------------------------------------------
\* Network idle detection (capture/network.rs).  Time is the number of
\* milliseconds since start_time; a sleep takes CHECK_INTERVAL_MS and a poll
\* takes none.  The recorder only grows; between two polls it stays or grows.

MaxCount == 20         \* records the recorder may come to hold

REQUIRED_STABLE_ITERATIONS == 3
CHECK_INTERVAL_MS == 500
MAX_WAIT_TIME_MS == 10000

\* Mutant of the loop condition: no cap on the wait.
NoMaxWait(elapsed) == TRUE

\* start_time.elapsed().as_millis() < MAX_WAIT_TIME_MS
WithinMaxWait(elapsed) == elapsed < MAX_WAIT_TIME_MS

\* The last three of the observations
LastThree(seen) == IF Len(seen) <= 3 THEN seen ELSE SubSeq(seen, Len(seen) - 2, Len(seen))

\* One iteration of the loop up to the sleep: the recorder's length is read (0
\* without a proxy) and compared with the length seen last.
IdlePoll ==
    /\ idle.pc = "test"
    /\ WithinMaxWait(idle.elapsed)
    /\ \E len \in {idle.records_len, idle.records_len + 1} :
          /\ len <= MaxCount
          /\ idle.proxy \/ len = 0
          /\ LET current_request_count == len
                 same == current_request_count = idle.last_request_count
                 stable == IF same THEN idle.stable_count + 1 ELSE 0
                 break == same /\ stable >= REQUIRED_STABLE_ITERATIONS
             IN idle' = [idle EXCEPT
                            !.records_len = len,
                            !.stable_count = stable,
                            !.last_request_count = current_request_count,
                            !.seen = LastThree(Append(idle.seen, current_request_count)),
                            !.declared = break,
                            !.pc = IF break THEN "after" ELSE "sleep"]
    /\ UNCHANGED notIdle

\* sleep(Duration::from_millis(CHECK_INTERVAL_MS))
IdleSleep ==
    /\ idle.pc = "sleep"
    /\ idle' = [idle EXCEPT !.elapsed = idle.elapsed + CHECK_INTERVAL_MS, !.pc = "test"]
    /\ UNCHANGED notIdle

\* The loop condition fails: the wait has lasted MAX_WAIT_TIME_MS.
IdleTimeout ==
    /\ idle.pc = "test"
    /\ ~WithinMaxWait(idle.elapsed)
    /\ idle' = [idle EXCEPT !.pc = "after"]
    /\ UNCHANGED notIdle

\* The warning after the loop, and Ok(())
IdleReturn ==
    /\ idle.pc = "after"
    /\ idle' = [idle EXCEPT !.result = "Ok", !.pc = "done"]
    /\ UNCHANGED notIdle

NextIdle == IdlePoll \/ IdleSleep \/ IdleTimeout \/ IdleReturn

InitIdle ==
    /\ ProxyInit /\ ServeOff /\ StoreInit /\ NavOff /\ CaptureOff /\ LaterOff
    /\ \E proxy \in BOOLEAN : idle = IdleLocals("test", proxy)

SpecIdle == InitIdle /\ [][NextIdle]_vars

\* The task that runs wait_for_network_idle is scheduled, and its sleeps end.
SpecIdleLive == SpecIdle /\ WF_vars(NextIdle)

\* Three consecutive polls have observed the same length.
RunOfThree ==
    /\ Len(idle.seen) = 3
    /\ idle.seen[1] = idle.seen[2] /\ idle.seen[2] = idle.seen[3]

\* C24: idle is declared at the first poll that completes a run of three
\* consecutive polls observing the same length, and not before: after every
\* poll, idle has been declared exactly if the last three polls agree.
C24_IdleAtFirstRunOfThree == idle.declared <=> RunOfThree

\* C25: wait_for_network_idle terminates, and when it has returned its result is
\* Ok and no more than MAX_WAIT_TIME_MS + CHECK_INTERVAL_MS have passed, whatever
\* the recorder's length did.
C25_IdleReturnsOkInTime ==
    /\ <>(idle.pc = "done")
    /\ [](idle.pc = "done" =>
            /\ idle.result = "Ok"
            /\ idle.elapsed <= MAX_WAIT_TIME_MS + CHECK_INTERVAL_MS)

\* The wait returned by the cap: every poll saw another length than the one before.
C25_Witness ==
    /\ idle.pc = "done" /\ idle.result = "Ok"
    /\ ~idle.declared
    /\ idle.elapsed = MAX_WAIT_TIME_MS
    /\ idle.records_len * CHECK_INTERVAL_MS = MAX_WAIT_TIME_MS

----------------------------------------------------------------------------
\* Errors (error/mod.rs), by the variant of WebMockError

ErrorKinds ==
    {"Browser", "Proxy", "Storage", "SnapshotNotFound", "PortInUse", "InvalidUrl",
     "Timeout", "Serialization", "Deserialization", "HttpServer", "Config",
     "PermissionDenied", "ChromeNotFound", "InvalidSnapshot", "CommandFailed"}

\* Mutant of is_recoverable: every error is recoverable.
AlwaysRecoverable(kind) == TRUE

\* WebMockError::is_recoverable
is_recoverable(kind) ==
    CASE kind = "PortInUse" -> TRUE
      [] kind = "Timeout" -> TRUE
      [] kind = "SnapshotNotFound" -> FALSE
      [] kind = "ChromeNotFound" -> FALSE
      [] kind = "PermissionDenied" -> FALSE
      [] kind = "InvalidUrl" -> FALSE
      [] OTHER -> TRUE

\* validation.rs: validate_url, and the same test at the head of
\* BrowserController::navigate: "ok", or the error
validate_url(url) ==
    IF url.scheme = "" \/ ~UrlParses(url) THEN "InvalidUrl"
    ELSE IF url.scheme \in {"http", "https"} THEN "ok"
    ELSE "InvalidUrl"

----------------------------------------------------------------------------
\* Navigation (session_workflow.rs: navigate_and_wait; browser_controller.rs)

MAX_ATTEMPTS == 3

\* The URLs navigation is asked for: two that are valid, one with another scheme,
\* one without a scheme and one whose host does not parse
NavUrls ==
    {Url("https", "s.com", "", "/"), Url("http", "s.com", "", "/x?q=1"),
     Url("ftp", "s.com", "", "/"), Url("", "s.com", "", "/"),
     Url("http", "bad host", "", "/")}

\* What page.goto may do within 45 s, or "timeout"
GotoOutcomes ==
    {"ok", "ERR_CONNECTION_CLOSED", "ERR_PROXY_CONNECTION_FAILED", "ERR_NAME_NOT_RESOLVED",
     "other", "timeout"}

\* BrowserController::navigate: "ok", or the kind of the error
navigate(url, goto) ==
    IF validate_url(url) # "ok" THEN validate_url(url)
    ELSE CASE goto = "ok" -> "ok"
           [] goto = "ERR_CONNECTION_CLOSED" -> "Browser"
           [] goto = "ERR_PROXY_CONNECTION_FAILED" -> "Config"
           [] goto = "ERR_NAME_NOT_RESOLVED" -> "Browser"
           [] goto = "timeout" -> "Timeout"
           [] OTHER -> "Browser"

\* What wait_for_load_events may do within 30 s, or "timeout"
LoadOutcomes == {"ok", "listener_error", "timeout"}

\* BrowserController::wait_for_load: a timeout is not an error
wait_for_load(load) == IF load = "listener_error" THEN "Browser" ELSE "ok"

\* The head of navigate_and_wait: without a browser it fails at once; with one it
\* sleeps and tests the proxy port (the outcome of the test is only logged).
NavBegin ==
    /\ nav.pc = "begin"
    /\ nav' = IF nav.browser THEN [nav EXCEPT !.pc = "loop"]
              ELSE [nav EXCEPT !.pc = "done", !.result = "Config"]
    /\ UNCHANGED notNav

\* One iteration of the loop: navigate, then wait_for_load; an error on the last
\* attempt is returned, an error before it is followed by a sleep of 2 s.
NavAttempt(goto, load) ==
    /\ nav.pc = "loop"
    /\ nav.attempts < MAX_ATTEMPTS
    /\ LET attempts == nav.attempts + 1
           navigated == navigate(nav.url, goto)
           met == IF navigated = "ok" THEN wait_for_load(load) ELSE navigated
       IN /\ navigated # "ok" => load = "ok"
          /\ nav' = [nav EXCEPT
                        !.attempts = attempts,
                        !.tried = Append(nav.tried, met),
                        !.sleeps = IF met # "ok" /\ attempts < MAX_ATTEMPTS
                                   THEN nav.sleeps + 1 ELSE nav.sleeps,
                        !.result = IF met = "ok" THEN "Ok"
                                   ELSE IF attempts >= MAX_ATTEMPTS THEN met ELSE "",
                        !.pc = IF met = "ok" \/ attempts >= MAX_ATTEMPTS THEN "done"
                               ELSE "loop"]
    /\ UNCHANGED notNav

NextNav ==
    \/ NavBegin
    \/ \E goto \in GotoOutcomes, load \in LoadOutcomes : NavAttempt(goto, load)

InitNav ==
    /\ ProxyInit /\ ServeOff /\ StoreInit /\ IdleOff /\ CaptureOff /\ LaterOff
    /\ \E url \in NavUrls, browser \in BOOLEAN : nav = NavLocals("begin", url, browser)

SpecNav == InitNav /\ [][NextNav]_vars

----------------------------------------------------------------------------
\* The capture orchestrator (commands/capture/execution.rs) over the capture
\* session (capture/session/): attempts, retries, stop and cleanup.

MaxLog == 2            \* exchanges the recorder of one attempt may come to hold

MAX_RETRIES == 3
RETRY_DELAY_SECS == 2

\* The URL of the command: one that validate_url accepts and one that it rejects
CaptureUrls ==
    {[parsed |-> Url("https", "s.com", "", "/"), text |-> Text("https://s.com/", 14)],
     [parsed |-> Url("ftp", "s.com", "", "/"), text |-> Text("ftp://s.com/", 12)]}

\* The exchanges the proxy records while the page loads
CaptureRecords ==
    {StoreExchange(<<>>, None, Text("html", 2)), StoreExchange(<<>>, None, Text("css", 3))}

\* An error of an attempt: the variant, and whether it arose because no browser
\* is installed
Failure(kind, cause) == [kind |-> kind, cause |-> cause]

\* Mutant of the guard of the retry arm: one retry more.
RetryOnceMore(retry_count) == retry_count <= MAX_RETRIES

\* retry_count < MAX_RETRIES
CanRetry(retry_count) == retry_count < MAX_RETRIES

\* The match on the result of session.capture when it is Err(e): the retry arm
\* (guard e.is_recoverable() && retry_count < MAX_RETRIES) or the last arm
AfterError(o, e) ==
    IF is_recoverable(e.kind) /\ CanRetry(o.retry_count)
    THEN [o EXCEPT !.errors = Append(o.errors, e), !.retry_count = o.retry_count + 1,
                   !.pc = "sleep"]
    ELSE [o EXCEPT !.errors = Append(o.errors, e), !.result = e.kind, !.pc = "failed"]

\* What finding a port and HttpProxy::start may do
StartOutcomes == {"ok", "no_port", "tls_error", "bind_error"}

\* capture up to the proxy: validate_url, find_available_port, HttpProxy::start
\* (which spawns the accept loop), and the handle stored in the session
CaptureStart(start) ==
    /\ orch.pc = "capture"
    /\ LET o == [orch EXCEPT !.attempts = orch.attempts + 1] IN
       IF validate_url(orch.url.parsed) # "ok"
       THEN /\ start = "ok"
            /\ orch' = AfterError(o, Failure(validate_url(orch.url.parsed), ""))
            /\ sess' = sess
       ELSE IF start # "ok"
       THEN /\ orch' = AfterError(o, Failure("Config", ""))
            /\ sess' = sess
       ELSE /\ orch' = [o EXCEPT !.pc = "launch"]
            /\ sess' = [sess EXCEPT !.proxy = o.attempts,
                                    !.loops = sess.loops \cup {o.attempts},
                                    !.log = <<>>, !.from = <<>>,
                                    !.started = sess.started \cup {o.attempts}]
    /\ UNCHANGED <<notCapture, files>>

\* What BrowserController::new may do, with a browser installed or not: the
\* configuration cannot be built, the launch fails with a message that holds
\* "No such file or directory" or with another one, or no page can be opened
LaunchOutcomes ==
    {[met |-> "ok", missing |-> FALSE],
     [met |-> "config_error", missing |-> FALSE], [met |-> "config_error", missing |-> TRUE],
     [met |-> "no_such_file", missing |-> TRUE],
     [met |-> "launch_error", missing |-> FALSE], [met |-> "launch_error", missing |-> TRUE],
     [met |-> "page_error", missing |-> FALSE]}

\* BrowserController::new: the variant of its error
LaunchError(met) ==
    CASE met = "config_error" -> "Config"
      [] met = "no_such_file" -> "ChromeNotFound"
      [] OTHER -> "Browser"

\* capture: the browser is launched and stored in the session
CaptureLaunch(launch) ==
    /\ orch.pc = "launch"
    /\ IF launch.met = "ok"
       THEN /\ sess' = [sess EXCEPT !.browser = TRUE]
            /\ orch' = [orch EXCEPT !.pc = "navigate"]
       ELSE /\ orch' = AfterError(orch, Failure(LaunchError(launch.met),
                                     IF launch.missing THEN "browser_not_found" ELSE ""))
            /\ sess' = sess
    /\ UNCHANGED <<notCapture, files>>

\* What navigate_and_wait under the caller's timeout may give for a URL that
\* validate_url accepted: Ok, its error, or Timeout
NavigationResults == {"ok", "Browser", "Config", "Timeout"}

\* capture: navigation within the timeout
CaptureNavigate(met) ==
    /\ orch.pc = "navigate"
    /\ orch' = IF met = "ok" THEN [orch EXCEPT !.pc = "idle"]
               ELSE AfterError(orch, Failure(met, ""))
    /\ UNCHANGED <<notCapture, files, sess>>

\* capture: wait_for_network_idle returns Ok, and so does capture
CaptureIdle ==
    /\ orch.pc = "idle"
    /\ orch' = [orch EXCEPT !.pc = "drain"]
    /\ UNCHANGED <<notCapture, files, sess>>

\* Mutant of recorder: every proxy's tasks hold the recorder of the proxy the
\* session holds now.
CurrentRecorder(attempt, current) == current

\* core.rs: HttpProxy::start makes a RequestRecorder of its own and hands a clone
\* of the Arc to every connection task: the recorder the tasks of an attempt hold
\* is that attempt's
recorder(attempt, current) == attempt

\* A connection task of the proxy that attempt a started appends an exchange to
\* the recorder it holds: the one stop will read while the session holds that
\* proxy, one that nothing reads any more afterwards.
Record(a, r) ==
    /\ a \in sess.started
    /\ IF sess.proxy # 0 /\ recorder(a, sess.proxy) = sess.proxy
       THEN /\ Len(sess.log) < MaxLog
            /\ sess' = [sess EXCEPT !.log = Append(sess.log, r),
                                    !.from = Append(sess.from, a)]
       ELSE /\ a \notin sess.late
            /\ sess' = [sess EXCEPT !.late = sess.late \cup {a}]
    /\ UNCHANGED <<notCapture, files, orch>>

\* tokio::time::sleep(Duration::from_secs(2)) of the retry arm
RetrySleep ==
    /\ orch.pc = "sleep"
    /\ orch' = [orch EXCEPT !.slept = orch.slept + RETRY_DELAY_SECS, !.pc = "cleanup"]
    /\ UNCHANGED <<notCapture, files, sess>>

\* Mutant of HttpProxy::stop: the accept loop is left running.
LoopKeepsRunning(loops, proxy) == loops

\* HttpProxy::stop: the shutdown signal, handle.abort() and handle.await
proxy_stop(loops, proxy) == loops \ {proxy}

\* Mutant of cleanup: the handles are left in the session.
NoCleanup(session) == session

\* CaptureSession::cleanup: browser.take() and close, proxy.take() and stop
cleanup(session) ==
    [session EXCEPT
        !.browser = FALSE, !.proxy = 0,
        !.loops = IF session.proxy # 0 THEN proxy_stop(session.loops, session.proxy)
                  ELSE session.loops,
        !.log = <<>>, !.from = <<>>]

\* The cleanup of the retry arm, and the next turn of the loop
RetryCleanup ==
    /\ orch.pc = "cleanup"
    /\ sess' = cleanup(sess)
    /\ orch' = [orch EXCEPT !.pc = "capture"]
    /\ UNCHANGED <<notCapture, files>>

\* Mutant of get_records: nothing is returned.
NoRecords(log) == <<>>

\* HttpProxy::get_records: a copy of the recorder's log
get_records(log) == log

\* stop: the recorder is read (nothing without a proxy)
StopDrain ==
    /\ orch.pc = "drain"
    /\ orch' = [orch EXCEPT
                   !.requests = IF sess.proxy # 0 THEN get_records(sess.log) ELSE <<>>,
                   !.at_drain = IF sess.proxy # 0 THEN sess.log ELSE <<>>,
                   !.pc = "save"]
    /\ UNCHANGED <<notCapture, files, sess>>

\* stop: the snapshot is built and saved; an error of save_snapshot is returned
StopSave(saved) ==
    /\ orch.pc = "save"
    /\ IF saved
       THEN /\ \E file \in WrittenFiles(StoreSnapshot(orch.name, orch.url.text,
                                                      orch.requests)) :
                  files' = (orch.name :> file) @@ files
            /\ orch' = [orch EXCEPT !.pc = "teardown"]
       ELSE /\ files' = files
            /\ orch' = [orch EXCEPT !.result = "Storage", !.pc = "failed"]
    /\ UNCHANGED <<notCapture, sess>>

\* stop: cleanup, and Ok(snapshot)
StopCleanup ==
    /\ orch.pc = "teardown"
    /\ sess' = cleanup(sess)
    /\ orch' = [orch EXCEPT !.result = "Ok", !.pc = "returned"]
    /\ UNCHANGED <<notCapture, files>>

\* run_capture_with_progress: the cleanup after the orchestrator returned Err
FailedCleanup ==
    /\ orch.pc = "failed"
    /\ orch.entry = "run"
    /\ sess' = cleanup(sess)
    /\ orch' = [orch EXCEPT !.pc = "returned"]
    /\ UNCHANGED <<notCapture, files>>

NextCapture ==
    \/ \E start \in StartOutcomes : CaptureStart(start)
    \/ \E launch \in LaunchOutcomes : CaptureLaunch(launch)
    \/ \E met \in NavigationResults : CaptureNavigate(met)
    \/ CaptureIdle
    \/ \E a \in 1..MAX_RETRIES + 1, r \in CaptureRecords : Record(a, r)
    \/ RetrySleep
    \/ RetryCleanup
    \/ StopDrain
    \/ \E saved \in BOOLEAN : StopSave(saved)
    \/ StopCleanup
    \/ FailedCleanup

\* The command runs the orchestrator, or stop is called on a session that never
\* started (as the session tests do).
InitCapture ==
    /\ ProxyInit /\ ServeOff /\ StoreInit /\ IdleOff /\ NavOff /\ LaterOff
    /\ sess = NewSession
    /\ \E url \in CaptureUrls :
          \/ orch = OrchLocals("capture", "run", url, "a")
          \/ orch = OrchLocals("drain", "stop", url, "a")

SpecCapture == InitCapture /\ [][NextCapture]_vars

----------------------------------------------------------------------------
\* C26: the orchestrator retries at most MAX_RETRIES times and has slept
\* RETRY_DELAY_SECS before each retry; when every attempt failed with a
\* recoverable error it has retried exactly MAX_RETRIES times and returns the
\* error of the last attempt.
C26_RetriesExactlyThree ==
    /\ orch.retry_count <= MAX_RETRIES
    /\ orch.attempts <= MAX_RETRIES + 1
    /\ orch.pc # "sleep" => orch.slept = RETRY_DELAY_SECS * orch.retry_count
    /\ orch.pc = "capture" => orch.attempts = orch.retry_count
    /\ (/\ orch.pc \in {"failed", "returned"}
        /\ orch.errors # <<>> /\ Len(orch.errors) = orch.attempts
        /\ \A i \in 1..Len(orch.errors) : is_recoverable(orch.errors[i].kind))
          => /\ orch.retry_count = MAX_RETRIES
             /\ Len(orch.errors) = MAX_RETRIES + 1
             /\ orch.result = orch.errors[Len(orch.errors)].kind

\* Four attempts failed with recoverable errors; the last error was returned
\* after three retries and six seconds of sleep.
C26_Witness ==
    /\ orch.pc = "returned" /\ orch.result = "Timeout"
    /\ orch.retry_count = 3 /\ orch.slept = 6
    /\ Len(orch.errors) = 4
    /\ orch.errors[1].kind = "Config" /\ orch.errors[2].kind = "Browser"

\* C27: when capture is invoked again after a failed attempt, the session holds
\* no browser and no proxy, and no accept loop of an earlier attempt runs.
C27_CleanBeforeRetry ==
    (orch.pc = "capture" /\ orch.retry_count > 0) =>
        /\ ~sess.browser
        /\ sess.proxy = 0
        /\ sess.loops = {}

\* An attempt failed in navigation, with proxy and browser up; the retry is
\* about to start on a clean session.
C27_Witness ==
    /\ orch.pc = "capture" /\ orch.retry_count = 2
    /\ orch.errors[1].kind = "Timeout" /\ orch.errors[2].kind = "Browser"
    /\ ~sess.browser /\ sess.proxy = 0 /\ sess.loops = {}

\* The variants of the failures the specification calls fatal: browser not
\* found, invalid URL, snapshot not found, snapshot-name validation failure
\* (validate_snapshot_name returns Config), permission denied, malformed snapshot
FatalKinds ==
    {"ChromeNotFound", "InvalidUrl", "SnapshotNotFound", "Config", "PermissionDenied",
     "InvalidSnapshot", "Deserialization"}

\* C28: an attempt that failed with a fatal kind of error, or because no browser
\* was found, is the last attempt: the orchestrator returns its error.
C28_FatalNeverRetried ==
    \A i \in 1..Len(orch.errors) :
        (orch.errors[i].kind \in FatalKinds \/ orch.errors[i].cause = "browser_not_found")
            => /\ i = Len(orch.errors)
               /\ orch.pc \in {"failed", "returned"}
               /\ orch.result = orch.errors[i].kind

\* The snapshot stop built is in the store, with the exchanges the recorder held
\* when stop read it, in their order.
Persisted ==
    /\ orch.name \in DOMAIN files
    /\ files[orch.name].of.name = orch.name
    /\ files[orch.name].of.url = orch.url.text
    /\ files[orch.name].of.requests = orch.at_drain

\* C30: stop persists a snapshot whose exchanges are the recorder's log (none
\* without a proxy) before it tears down the browser and the proxy: when the
\* teardown begins the snapshot is stored and the handles are still held, and
\* when stop has returned Ok the snapshot is stored and the handles are gone.
C30_PersistBeforeTeardown ==
    /\ orch.pc = "teardown" =>
          /\ Persisted
          /\ orch.entry = "run" =>
                (sess.browser /\ sess.proxy # 0 /\ sess.proxy \in sess.loops)
    /\ (orch.pc = "returned" /\ orch.result = "Ok") =>
          /\ Persisted
          /\ ~sess.browser /\ sess.proxy = 0 /\ sess.loops = {}
    /\ (orch.pc \in {"drain", "save"} /\ orch.entry = "run") =>
          (sess.browser /\ sess.proxy # 0)

\* After one retry the capture succeeded and stop saved two exchanges, then tore
\* the session down.
C30_Witness ==
    /\ orch.pc = "returned" /\ orch.result = "Ok" /\ orch.retry_count = 1
    /\ Persisted
    /\ Len(files[orch.name].of.requests) = 2
    /\ files[orch.name].of.requests[1] # files[orch.name].of.requests[2]
    /\ sess.proxy = 0

----------------------------------------------------------------------------
\* C34: once stop has read the recorder no connection task appends to it: while
\* the snapshot is built and saved, and when the teardown begins, the recorder
\* holds what stop read, and after stop returned no task of that proxy has
\* appended an exchange that the snapshot lacks.
C34_NothingRecordedAfterDrain ==
    /\ (orch.pc \in {"save", "teardown"} /\ sess.proxy # 0) => sess.log = orch.at_drain
    /\ (orch.pc = "returned" /\ orch.result = "Ok" /\ orch.entry = "run") =>
          orch.attempts \notin sess.late

\* C35: the recorder the session's proxy holds has only entries appended by
\* connection tasks of that proxy, so what stop reads, and persists, after a
\* retried capture are exchanges of the final attempt only.
C35_OnlyFinalAttemptPersisted ==
    /\ \A i \in 1..Len(sess.from) : sess.from[i] = sess.proxy
    /\ Len(sess.from) = Len(sess.log)
    /\ (orch.pc \in {"save", "teardown"} /\ orch.entry = "run") =>
          /\ sess.proxy = orch.attempts
          /\ Len(orch.requests) <= Len(sess.log)
          /\ \A i \in 1..Len(orch.requests) : orch.requests[i] = sess.log[i]
    /\ orch.pc = "teardown" => files[orch.name].of.requests = orch.requests

\* The first attempt failed after its proxy had started, and one of its
\* connection tasks recorded an exchange after the cleanup; the second attempt
\* succeeded and stop has saved the exchange it recorded.
C35_Witness ==
    /\ orch.pc = "teardown" /\ orch.retry_count = 1 /\ orch.attempts = 2
    /\ 1 \in sess.started /\ 1 \in sess.late
    /\ Len(orch.requests) = 1
    /\ files[orch.name].of.requests = orch.requests
    /\ sess.from = <<2>>

\* C38: when run_capture_with_progress has returned, with Ok or with an error,
\* the session holds neither a browser nor a proxy and no accept loop runs.
C38_NothingHeldAfterReturn ==
    (orch.entry = "run" /\ orch.pc = "returned") =>
        /\ ~sess.browser
        /\ sess.proxy = 0
        /\ sess.loops = {}

\* The capture succeeded, stop read the recorder and the save failed: the
\* command returned the storage error with the session torn down.
C38_Witness ==
    /\ orch.entry = "run" /\ orch.pc = "returned" /\ orch.result = "Storage"
    /\ orch.errors = <<>> /\ orch.at_drain # <<>>
    /\ orch.name \notin DOMAIN files
    /\ ~sess.browser /\ sess.proxy = 0 /\ sess.loops = {}

-----------------------------------------------------------------------------
\* Resource manager (capture/resource_manager.rs): the registry of managed tasks

\* Bounds of the model.
MaxTasks == 2          \* tasks spawn_managed_task may spawn

\* resource_manager.rs:142: the pause between two counts of wait_for_all_tasks
WAIT_SLEEP_MS == 100

TaskNames == {"a", "b"}
WaitTimeouts == {0, WAIT_SLEEP_MS}

\* Every task tokio::spawn created has completed or was cancelled, and no
\* spawn_managed_task call is between its spawn and its registration.
AllTasksFinished ==
    /\ rm.pending = {}
    /\ \A h \in 1..Len(rm.handles) : rm.handles[h].at \in {"finished", "aborted"}

\* resource_manager.rs: JoinHandle::abort; a task that has completed is left alone
abort(handles, h) ==
    IF handles[h].at = "finished" THEN handles
    ELSE [handles EXCEPT ![h].at = "aborted"]

\* resource_manager.rs: tasks.remove(name) as a function of the registry
Removed(tasks, name) == {t \in tasks : t.name # name}

\* resource_manager.rs: active_task_count
active_task_count == Cardinality(rm.tasks)

\* resource_manager.rs: spawn_managed_task up to tokio::spawn; the task may run
\* from here on, the handle is not in the registry yet
SpawnManagedTask(name) ==
    /\ Len(rm.handles) < MaxTasks
    /\ rm' = [rm EXCEPT !.handles = Append(@, [name |-> name, at |-> "running"]),
                        !.pending = @ \cup {[name |-> name, handle |-> Len(rm.handles) + 1]}]
    /\ UNCHANGED notTasks

\* resource_manager.rs: register_task, the last line of spawn_managed_task
RegisterTask(p) ==
    /\ p \in rm.pending
    /\ LET old == {t \in rm.tasks : t.name = p.name}
           aborted == IF old = {} THEN rm.handles
                      ELSE abort(rm.handles, (CHOOSE t \in old : TRUE).handle)
       IN rm' = [rm EXCEPT !.tasks = Removed(@, p.name) \cup {p},
                           !.handles = aborted,
                           !.pending = @ \ {p}]
    /\ UNCHANGED notTasks

\* resource_manager.rs: the spawned task's future().await completes
TaskBody(h) ==
    /\ h \in 1..Len(rm.handles)
    /\ rm.handles[h].at = "running"
    /\ rm' = [rm EXCEPT !.handles[h].at = "unregister"]
    /\ UNCHANGED notTasks

\* resource_manager.rs: unregister_task(name, false), the spawned task's last call
unregister_task(h) ==
    /\ h \in 1..Len(rm.handles)
    /\ rm.handles[h].at = "unregister"
    /\ rm' = [rm EXCEPT !.tasks = Removed(@, rm.handles[h].name),
                        !.handles[h].at = "finished"]
    /\ UNCHANGED notTasks

\* resource_manager.rs: wait_for_all_tasks is called
WaitBegin(timeout) ==
    /\ rm.wait.pc = "off"
    /\ rm' = [rm EXCEPT !.wait = WaitLocals("count", timeout)]
    /\ UNCHANGED notTasks

\* resource_manager.rs: one turn of the loop of wait_for_all_tasks
wait_for_all_tasks ==
    /\ rm.wait.pc = "count"
    /\ rm' = [rm EXCEPT !.wait =
           IF active_task_count = 0
           THEN [@ EXCEPT !.pc = "done", !.result = "Ok", !.settled = AllTasksFinished]
           ELSE IF @.elapsed > @.timeout
           THEN [@ EXCEPT !.pc = "done", !.result = "Err", !.settled = AllTasksFinished]
           ELSE [@ EXCEPT !.elapsed = @ + WAIT_SLEEP_MS, !.settled = AllTasksFinished]]
    /\ UNCHANGED notTasks

NextTasks ==
    \/ \E name \in TaskNames : SpawnManagedTask(name)
    \/ \E p \in rm.pending : RegisterTask(p)
    \/ \E h \in 1..MaxTasks : TaskBody(h)
    \/ \E h \in 1..MaxTasks : unregister_task(h)
    \/ \E timeout \in WaitTimeouts : WaitBegin(timeout)
    \/ wait_for_all_tasks

InitTasks ==
    /\ ProxyInit /\ ServeOff /\ StoreInit /\ IdleOff /\ NavOff /\ CaptureOff
    /\ TasksOff /\ WriterOff /\ RecorderOff /\ PortOff

SpecTasks == InitTasks /\ [][NextTasks]_vars

\* C31: once every managed task has completed and no spawn_managed_task call is
\* in flight, the registry is empty (active_task_count is 0) and a
\* wait_for_all_tasks that counted the registry in that state returned Ok.
C31_FinishedTasksAreUnregistered ==
    AllTasksFinished =>
        /\ active_task_count = 0
        /\ (rm.wait.pc = "done" /\ rm.wait.settled => rm.wait.result = "Ok")

-----------------------------------------------------------------------------
\* Streaming writer (capture/proxy/streaming.rs)

\* Bounds of the model.
MaxWrites == 3         \* write calls on one StreamingWriter
MaxChunk == 2          \* bytes of one write call

Bytes == {"x", "y"}
Chunks == UNION {[1..n -> Bytes] : n \in 0..MaxChunk}
MemorySizes == {0, 1, 3}

\* The chunks of a sequence of write calls, concatenated in call order.
RECURSIVE Concat(_)
Concat(chunks) ==
    IF chunks = <<>> THEN <<>> ELSE Head(chunks) \o Concat(Tail(chunks))

\* streaming.rs: temp_file.reopen() opens the path again for reading and writing,
\* positioned at its start; write_all then replaces the bytes from there on
\* and leaves the bytes behind the written ones as they were
reopen_write_all(file, data) ==
    IF Len(file) > Len(data)
    THEN data \o SubSeq(file, Len(data) + 1, Len(file))
    ELSE data

\* streaming.rs: StreamingWriter::write, every file operation succeeding
write(data) ==
    /\ sw.pc = "open"
    /\ Len(sw.chunks) < MaxWrites
    /\ IF Len(sw.in_memory_buffer) + Len(data) <= sw.max_memory_size /\ ~sw.temp_file
       THEN sw' = [sw EXCEPT !.in_memory_buffer = @ \o data,
                             !.chunks = Append(@, data)]
       ELSE LET spilled == IF ~sw.temp_file /\ sw.in_memory_buffer # <<>>
                           THEN reopen_write_all(sw.file, sw.in_memory_buffer)
                           ELSE sw.file
            IN sw' = [sw EXCEPT !.temp_file = TRUE,
                                !.in_memory_buffer = IF sw.temp_file THEN @ ELSE <<>>,
                                !.file = reopen_write_all(spilled, data),
                                !.chunks = Append(@, data)]
    /\ UNCHANGED notWriter

\* streaming.rs: StreamingWriter::finalize
finalize ==
    /\ sw.pc = "open"
    /\ sw' = [sw EXCEPT !.pc = "finalized",
                        !.result = IF sw.temp_file THEN sw.file ELSE sw.in_memory_buffer]
    /\ UNCHANGED notWriter

NextWriter ==
    \/ \E data \in Chunks : write(data)
    \/ finalize

InitWriter ==
    /\ ProxyInit /\ ServeOff /\ StoreInit /\ IdleOff /\ NavOff /\ CaptureOff
    /\ TasksOff /\ RecorderOff /\ PortOff
    /\ \E max_memory_size \in MemorySizes : sw = NewWriter(max_memory_size)

SpecWriter == InitWriter /\ [][NextWriter]_vars

\* C32: finalize returns the concatenation of all written chunks in call order,
\* whether the data stayed in memory or went to the temporary file.
C32_FinalizeReturnsAllChunks ==
    sw.pc = "finalized" => sw.result = Concat(sw.chunks)

-----------------------------------------------------------------------------
\* The recording proxy's replies and the log (specification Spec)

\* The log holds exactly one entry appended by the handler task c is in, and it
\* is the entry of the request the handler answers.
RecordedOnce(c) ==
    /\ Cardinality(OwnEntries(c)) = 1
    /\ \A i \in OwnEntries(c) :
          /\ records[i].kind = cur[c].kind
          /\ records[i].method = cur[c].method
          /\ records[i].url = cur[c].url

\* C33: when the proxy hands back the reply to a request that is not a CONNECT,
\* the log already holds exactly one entry for that request.
C33_EveryReplyRecorded ==
    \A c \in Conns :
        (pc[c] = "reply" /\ cur[c].method # "CONNECT") => RecordedOnce(c)

-----------------------------------------------------------------------------
\* The request recorder on its own (capture/proxy/recorder.rs).  Each method
\* holds the mutex from its first line to its return, so each call is one step.

\* Bounds of the model.
MaxCalls == 5          \* calls made on the recorder

RecorderRecords == {"r1", "r2"}

\* Mutant of push: the record is put in front.
push_front(vec, record) == <<record>> \o vec

\* Vec::push
push(vec, record) == Append(vec, record)

\* recorder.rs: record_request
record_request(record) ==
    /\ rec.calls < MaxCalls
    /\ rec' = [rec EXCEPT !.records = push(@, record), !.calls = @ + 1]
    /\ UNCHANGED notRecorder

\* recorder.rs: get_records returns records.clone()
RecorderGetRecords ==
    /\ rec.calls < MaxCalls
    /\ rec' = [rec EXCEPT !.reads = Append(@, [clears |-> rec.clears, copy |-> rec.records]),
                          !.calls = @ + 1]
    /\ UNCHANGED notRecorder

\* recorder.rs: clear_records
clear_records ==
    /\ rec.calls < MaxCalls
    /\ rec' = [rec EXCEPT !.records = <<>>, !.clears = @ + 1, !.calls = @ + 1]
    /\ UNCHANGED notRecorder

NextRecorder ==
    \/ \E record \in RecorderRecords : record_request(record)
    \/ RecorderGetRecords
    \/ clear_records

InitRecorder ==
    /\ ProxyInit /\ ServeOff /\ StoreInit /\ IdleOff /\ NavOff /\ CaptureOff
    /\ TasksOff /\ WriterOff /\ RecorderOff /\ PortOff

SpecRecorder == InitRecorder /\ [][NextRecorder]_vars

\* s is an initial part of t.
IsPrefix(s, t) == Len(s) <= Len(t) /\ SubSeq(t, 1, Len(s)) = s

\* C39: of two reads with no clear between them the earlier copy is a prefix of
\* the later one, and of the log as long as no clear follows; a copy that was
\* returned never changes, whatever is appended or cleared afterwards.
C39_ReadsArePrefixes ==
    /\ [](/\ \A i, j \in 1..Len(rec.reads) :
                (i <= j /\ rec.reads[i].clears = rec.reads[j].clears)
                    => IsPrefix(rec.reads[i].copy, rec.reads[j].copy)
          /\ \A i \in 1..Len(rec.reads) :
                rec.reads[i].clears = rec.clears => IsPrefix(rec.reads[i].copy, rec.records))
    /\ [][\A i \in 1..Len(rec.reads) : rec.reads'[i] = rec.reads[i]]_vars

\* Two reads with an append between them, then a clear: the first copy is a
\* proper prefix of the second and both are kept as they were returned.
C39_Witness ==
    /\ Len(rec.reads) = 2
    /\ rec.reads[1].copy = <<"r1">> /\ rec.reads[2].copy = <<"r1", "r2">>
    /\ rec.clears = 1 /\ rec.records = <<>>

-----------------------------------------------------------------------------
\* The serve command's port resolution (commands/serve/mod.rs)

\* serve/mod.rs:18: MAX_ATTEMPTS of find_available_port
PORT_MAX_ATTEMPTS == 100

\* u16::MAX
U16_MAX == 65535

RequestedPorts == {8080, U16_MAX - PORT_MAX_ATTEMPTS, U16_MAX - 35, U16_MAX}
BusyRuns == 0..(PORT_MAX_ATTEMPTS + 1)

\* a + b on u16 in a build that does not check overflow
add_u16(a, b) == (a + b) % (U16_MAX + 1)

\* serve/mod.rs: is_port_available; binding port 0 lets the system choose a free
\* port and succeeds
is_port_available(p) ==
    p = 0 \/ ~(port.requested_port <= p /\ p < port.requested_port + port.busy)

\* serve/mod.rs: check_and_resolve_port up to the call of find_available_port
PortCheck ==
    /\ port.pc = "check"
    /\ port' =
         IF is_port_available(port.requested_port)
         THEN [port EXCEPT !.pc = "done", !.result = "Ok", !.value = port.requested_port,
                           !.probed = Append(@, port.requested_port)]
         ELSE LET over == port.requested_port + 1 > U16_MAX IN
              IF over /\ port.checks
              THEN [port EXCEPT !.pc = "panicked", !.overflowed = TRUE,
                                !.probed = Append(@, port.requested_port)]
              ELSE [port EXCEPT !.pc = "search", !.overflowed = over,
                                !.start_port = add_u16(port.requested_port, 1),
                                !.probed = Append(@, port.requested_port)]
    /\ UNCHANGED notPort

\* serve/mod.rs: one turn of the loop of find_available_port
PortProbe ==
    /\ port.pc = "search"
    /\ port.attempt < PORT_MAX_ATTEMPTS
    /\ LET over == port.start_port + port.attempt > U16_MAX
           p == add_u16(port.start_port, port.attempt)
       IN port' =
            IF over /\ port.checks
            THEN [port EXCEPT !.pc = "panicked", !.overflowed = TRUE]
            ELSE IF is_port_available(p)
            THEN [port EXCEPT !.pc = "done", !.result = "Ok", !.value = p,
                              !.probed = Append(@, p), !.overflowed = @ \/ over]
            ELSE [port EXCEPT !.attempt = @ + 1, !.probed = Append(@, p),
                              !.overflowed = @ \/ over]
    /\ UNCHANGED notPort

\* serve/mod.rs: the loop is exhausted; the Err arm of check_and_resolve_port
\* formats requested_port + 1 and requested_port + 100 and returns PortInUse
PortExhausted ==
    /\ port.pc = "search"
    /\ port.attempt = PORT_MAX_ATTEMPTS
    /\ LET over == port.requested_port + PORT_MAX_ATTEMPTS > U16_MAX IN
       port' = IF over /\ port.checks
               THEN [port EXCEPT !.pc = "panicked", !.overflowed = TRUE]
               ELSE [port EXCEPT !.pc = "done", !.result = "PortInUse",
                                 !.overflowed = @ \/ over]
    /\ UNCHANGED notPort

NextPort == PortCheck \/ PortProbe \/ PortExhausted

InitPort ==
    /\ ProxyInit /\ ServeOff /\ StoreInit /\ IdleOff /\ NavOff /\ CaptureOff
    /\ TasksOff /\ WriterOff /\ RecorderOff
    /\ \E requested_port \in RequestedPorts, busy \in BusyRuns, checks \in BOOLEAN :
          port = PortLocals("check", requested_port, busy, checks)

SpecPort == InitPort /\ [][NextPort]_vars

\* C40: no addition of the port search leaves the range of u16, every port that
\* is tried lies in [requested, requested + 100], and a port that is returned is
\* the requested one or lies in [requested + 1, requested + 100].
C40_PortSearchStaysInRange ==
    /\ ~port.overflowed
    /\ port.pc # "panicked"
    /\ \A i \in 1..Len(port.probed) :
          /\ port.requested_port <= port.probed[i]
          /\ port.probed[i] <= port.requested_port + PORT_MAX_ATTEMPTS
    /\ (port.pc = "done" /\ port.result = "Ok") =>
          \/ port.value = port.requested_port
          \/ /\ port.requested_port + 1 <= port.value
             /\ port.value <= port.requested_port + PORT_MAX_ATTEMPTS

====
